---------------------------- MODULE Spec2Model ----------------------------
(***************************************************************************)
(* tftaglint: the rule engine (internal/validator) that checks extracted   *)
(* Terraform resources against a tag configuration (internal/config).      *)
(*                                                                         *)
(* Validator.Validate is modelled as the loop it is: one step per         *)
(* iteration of the resource loop and of the rule loop, each appending the *)
(* slice a check returned to the violations accumulated so far.            *)
(***************************************************************************)
EXTENDS Naturals, Sequences, FiniteSets, TLC

VARIABLES
    config,      \* Validator.config: the loaded *config.Config
    resources,   \* the []parser.Resource handed to Validate
    violations,  \* Validate's accumulator `var violations []Violation`
    idx,         \* position of the `range resources` loop (1-based)
    ruleIdx,     \* position of the `range v.config.Rules` loop (1-based)
    ret,         \* the slice returned by the last checkGlobalRequiredTags/checkRule call
    origin,      \* history: for every element of violations, <<idx, phase>> of the call that emitted it
    pc,          \* "resource" | "rules" | "done"; "idle" while Validate is not called
    firstRun,    \* <<r>> once an earlier Validate call on the same input has returned r; <<>> before
    planFile,    \* the file whose name is handed to ParseTerraformPlan
    planPc,      \* "idle" | "read" | "unmarshal" | "modules" | "returned"
    stack,       \* the calls of processModuleResources/processChildModule in progress, innermost last
    converted,   \* what the last convertPlannedResource call was given and returned
    result,      \* ParseTerraformPlan's *ParseResult (<<>> is nil)
    err,         \* ParseTerraformPlan's error (<<>> is nil)
    whole,       \* the list A ++ B, where it is cut, and the configuration, when Validate is called on A ++ B, A and B
    pieces,      \* what the calls on A ++ B and on A returned, once they have
    paths,       \* the root paths handed to ParseTerraformFiles
    fsys,        \* the file system: what is at each root path that exists
    filesPc,     \* "idle" | "paths" | "walk" | "returned"
    pathIdx,     \* position of the `range paths` loop (1-based)
    visits,      \* the calls filepath.Walk makes of the function handed to it, for the current path
    visitIdx,    \* the call among visits that is next
    parsed,      \* ParseTerraformFiles's *ParseResult (<<>> is nil)
    walkErr,     \* ParseTerraformFiles's error (<<>> is nil)
    cfgFile,     \* the configuration file whose name is handed to LoadConfig
    loaded,      \* <<[config, err]>> once LoadConfig has returned; <<>> before
    runPc,       \* where runValidate stands; "idle" while it is not called
    args,        \* the command line: the plan file ("" if none), the paths, the summary flag
    stdout,      \* what has been written to standard output, line by line
    stderr,      \* what has been written to standard error, line by line
    runErr       \* runValidate's error (<<>> is nil)

validateVars == <<config, resources, violations, idx, ruleIdx, ret, origin, pc, firstRun>>

planVars == <<planFile, planPc, stack, converted, result, err>>

concatVars == <<whole, pieces>>

\* the variables of the parts of the program other than Validate and ParseTerraformPlan
filesVars == <<paths, fsys, filesPc, pathIdx, visits, visitIdx, parsed, walkErr>>

runVars == <<cfgFile, loaded, runPc, args, stdout, stderr, runErr>>

moreVars == <<concatVars, filesVars, runVars>>

vars == <<validateVars, planVars, moreVars>>

\* no call other than Validate or ParseTerraformPlan is in progress
ConcatIdle == whole = <<>> /\ pieces = <<>>

FilesIdle ==
    /\ paths = <<>>
    /\ fsys = <<>>
    /\ filesPc = "idle"
    /\ pathIdx = 0
    /\ visits = <<>>
    /\ visitIdx = 0
    /\ parsed = <<>>
    /\ walkErr = <<>>

RunIdle ==
    /\ cfgFile = <<>>
    /\ loaded = <<>>
    /\ runPc = "idle"
    /\ args = <<>>
    /\ stdout = <<>>
    /\ stderr = <<>>
    /\ runErr = <<>>

MoreIdle == ConcatIdle /\ FilesIdle /\ RunIdle

-----------------------------------------------------------------------------
(* Bounds of the explored inputs *)

MaxResources == 2     \* longest resource list handed to Validate
MaxRules == 2         \* longest config.Rules list

-----------------------------------------------------------------------------
(* Strings of the explored inputs *)

TypeNames == {"aws_instance", "aws_s3_bucket"}

TagNames == {"Name", "Owner", "Test", "environment"}

\* the values a tag key takes in the explored resources
TagValues ==
    [Name |-> {"", "x"}, Owner |-> {"team-a"}, Test |-> {"true"},
     environment |-> {"prod", "production", "Prod"}]

\* the letters of each tag key, for the pattern matchers
Spell ==
    [Name |-> <<"N", "a", "m", "e">>,
     Owner |-> <<"O", "w", "n", "e", "r">>,
     Test |-> <<"T", "e", "s", "t">>,
     environment |-> <<"e", "n", "v", "i", "r", "o", "n", "m", "e", "n", "t">>]

Upper == {"N", "O", "T", "P"}
Lower == {"a", "e", "i", "m", "n", "o", "r", "s", "t", "v", "w"}

-----------------------------------------------------------------------------
(* internal/config: the configuration types *)

\* a nil pointer (*Condition, *regexp.Regexp); a set pointer is <<value>>
Nil == <<>>

\* regexp.MustCompile(p).MatchString(s) for the patterns of the explored rules
MatchString(regex, s) ==
    LET w == Spell[s] IN
    CASE regex = "^[A-Z][a-zA-Z0-9]*$" ->
            /\ Len(w) >= 1
            /\ w[1] \in Upper
            /\ \A i \in 2..Len(w) : w[i] \in Upper \cup Lower
      [] regex = "^[a-z_]+$" ->
            /\ Len(w) >= 1
            /\ \A i \in 1..Len(w) : w[i] \in Lower \cup {"_"}
      [] regex = "^.{1,5}$" ->
            Len(w) >= 1 /\ Len(w) <= 5

\* func (tp *TagPattern) Validate(tagName string) bool
TagPatternValidate(tp, tagName) ==
    IF tp.regex = Nil
    THEN TRUE
    ELSE MatchString(tp.regex[1], tagName)

-----------------------------------------------------------------------------
(* internal/validator *)

\* strings.Join(elems, sep)
RECURSIVE Join(_, _)
Join(elems, sep) ==
    IF Len(elems) = 0 THEN ""
    ELSE IF Len(elems) = 1 THEN elems[1]
    ELSE elems[1] \o sep \o Join(Tail(elems), sep)

\* shouldIgnoreResource comparing the type with the first entry of the list only
shouldIgnoreResource_FirstOnly(v, resourceType) ==
    /\ Len(v.config.Global.IgnoreResourceTypes) > 0
    /\ resourceType = v.config.Global.IgnoreResourceTypes[1]

\* func (v *Validator) shouldIgnoreResource(resourceType string) bool
shouldIgnoreResource(v, resourceType) ==
    \E i \in 1..Len(v.config.Global.IgnoreResourceTypes) :
        resourceType = v.config.Global.IgnoreResourceTypes[i]

\* the loop of checkGlobalRequiredTags taking a tag with an empty value for a missing one
RECURSIVE checkGlobalRequiredTagsFrom_EmptyIsMissing(_, _, _, _)
checkGlobalRequiredTagsFrom_EmptyIsMissing(v, resource, i, acc) ==
    IF i > Len(v.config.Global.AlwaysRequiredTags) THEN acc
    ELSE LET requiredTag == v.config.Global.AlwaysRequiredTags[i] IN
         checkGlobalRequiredTagsFrom_EmptyIsMissing(v, resource, i + 1,
            IF \/ requiredTag \notin DOMAIN resource.Tags
               \/ resource.Tags[requiredTag] = ""
            THEN Append(acc, [Rule |-> "global-required-tags",
                              Description |-> "Global required tags",
                              Resource |-> resource,
                              Message |-> "Missing required tag: " \o requiredTag])
            ELSE acc)

\* the loop of checkGlobalRequiredTags, from position i with the slice built so far
RECURSIVE checkGlobalRequiredTagsFrom(_, _, _, _)
checkGlobalRequiredTagsFrom(v, resource, i, acc) ==
    IF i > Len(v.config.Global.AlwaysRequiredTags) THEN acc
    ELSE LET requiredTag == v.config.Global.AlwaysRequiredTags[i] IN
         checkGlobalRequiredTagsFrom(v, resource, i + 1,
            IF requiredTag \notin DOMAIN resource.Tags
            THEN Append(acc, [Rule |-> "global-required-tags",
                              Description |-> "Global required tags",
                              Resource |-> resource,
                              Message |-> "Missing required tag: " \o requiredTag])
            ELSE acc)

\* func (v *Validator) checkGlobalRequiredTags(resource parser.Resource) []Violation
checkGlobalRequiredTags(v, resource) ==
    checkGlobalRequiredTagsFrom(v, resource, 1, <<>>)

\* isResourceTypeInList answering true for every type
isResourceTypeInList_Always(resourceType, list) == TRUE

\* func (v *Validator) isResourceTypeInList(resourceType string, list []string) bool
isResourceTypeInList(resourceType, list) ==
    \E i \in 1..Len(list) : list[i] = resourceType

\* checkCondition letting a resource without the condition's tag pass
checkCondition_MissingPasses(resource, condition) ==
    LET exists == condition.Tag \in DOMAIN resource.Tags IN
    exists => resource.Tags[condition.Tag] = condition.Value

\* func (v *Validator) checkCondition(resource parser.Resource, condition *config.Condition) bool
checkCondition(resource, condition) ==
    LET exists == condition.Tag \in DOMAIN resource.Tags IN
    exists /\ resource.Tags[condition.Tag] = condition.Value

\* isValueAllowed taking an empty list for "no restriction"
isValueAllowed_EmptyAllowsAll(value, allowedValues) ==
    \/ Len(allowedValues) = 0
    \/ \E i \in 1..Len(allowedValues) : value = allowedValues[i]

\* func (v *Validator) isValueAllowed(value string, allowedValues []string) bool
isValueAllowed(value, allowedValues) ==
    \E i \in 1..Len(allowedValues) : value = allowedValues[i]

\* the required-tags loop taking a tag with an empty value for a missing one
RECURSIVE checkRequiredTagsFrom_EmptyIsMissing(_, _, _, _)
checkRequiredTagsFrom_EmptyIsMissing(resource, rule, i, acc) ==
    IF i > Len(rule.RequiredTags) THEN acc
    ELSE LET requiredTag == rule.RequiredTags[i] IN
         checkRequiredTagsFrom_EmptyIsMissing(resource, rule, i + 1,
            IF \/ requiredTag \notin DOMAIN resource.Tags
               \/ resource.Tags[requiredTag] = ""
            THEN Append(acc, [Rule |-> rule.Name,
                              Description |-> rule.Description,
                              Resource |-> resource,
                              Message |-> "Missing required tag: " \o requiredTag])
            ELSE acc)

\* checkRule, "Check required tags": the loop over rule.RequiredTags
RECURSIVE checkRequiredTagsFrom(_, _, _, _)
checkRequiredTagsFrom(resource, rule, i, acc) ==
    IF i > Len(rule.RequiredTags) THEN acc
    ELSE LET requiredTag == rule.RequiredTags[i] IN
         checkRequiredTagsFrom(resource, rule, i + 1,
            IF requiredTag \notin DOMAIN resource.Tags
            THEN Append(acc, [Rule |-> rule.Name,
                              Description |-> rule.Description,
                              Resource |-> resource,
                              Message |-> "Missing required tag: " \o requiredTag])
            ELSE acc)

\* the forbidden-tags loop leaving at the first forbidden tag it finds
RECURSIVE checkForbiddenTagsFrom_StopAtFirst(_, _, _, _)
checkForbiddenTagsFrom_StopAtFirst(resource, rule, i, acc) ==
    IF i > Len(rule.ForbiddenTags) THEN acc
    ELSE LET forbiddenTag == rule.ForbiddenTags[i] IN
         IF forbiddenTag \in DOMAIN resource.Tags
         THEN Append(acc, [Rule |-> rule.Name,
                           Description |-> rule.Description,
                           Resource |-> resource,
                           Message |-> "Forbidden tag found: " \o forbiddenTag])
         ELSE checkForbiddenTagsFrom_StopAtFirst(resource, rule, i + 1, acc)

\* checkRule, "Check forbidden tags": the loop over rule.ForbiddenTags
RECURSIVE checkForbiddenTagsFrom(_, _, _, _)
checkForbiddenTagsFrom(resource, rule, i, acc) ==
    IF i > Len(rule.ForbiddenTags) THEN acc
    ELSE LET forbiddenTag == rule.ForbiddenTags[i] IN
         checkForbiddenTagsFrom(resource, rule, i + 1,
            IF forbiddenTag \in DOMAIN resource.Tags
            THEN Append(acc, [Rule |-> rule.Name,
                              Description |-> rule.Description,
                              Resource |-> resource,
                              Message |-> "Forbidden tag found: " \o forbiddenTag])
            ELSE acc)

\* checkRule, "Check tag constraints": the loop over rule.TagConstraints
RECURSIVE checkTagConstraintsFrom(_, _, _, _)
checkTagConstraintsFrom(resource, rule, i, acc) ==
    IF i > Len(rule.TagConstraints) THEN acc
    ELSE LET constraint == rule.TagConstraints[i] IN
         checkTagConstraintsFrom(resource, rule, i + 1,
            IF /\ constraint.Tag \in DOMAIN resource.Tags
               /\ ~isValueAllowed(resource.Tags[constraint.Tag], constraint.AllowedValues)
            THEN Append(acc, [Rule |-> rule.Name,
                              Description |-> rule.Description,
                              Resource |-> resource,
                              Message |-> "Invalid value for tag " \o constraint.Tag
                                          \o ": '" \o resource.Tags[constraint.Tag]
                                          \o "'. Allowed values: "
                                          \o Join(constraint.AllowedValues, ", ")])
            ELSE acc)

\* the inner pattern loop leaving at the first pattern the tag name fails
RECURSIVE checkTagPatternsOfTag_StopAtFirst(_, _, _, _, _)
checkTagPatternsOfTag_StopAtFirst(resource, rule, tagName, j, acc) ==
    IF j > Len(rule.TagPatterns) THEN acc
    ELSE LET pattern == rule.TagPatterns[j] IN
         IF ~TagPatternValidate(pattern, tagName)
         THEN Append(acc, [Rule |-> rule.Name,
                           Description |-> rule.Description,
                           Resource |-> resource,
                           Message |-> "Tag name '" \o tagName
                                       \o "' does not match pattern: "
                                       \o pattern.Message])
         ELSE checkTagPatternsOfTag_StopAtFirst(resource, rule, tagName, j + 1, acc)

\* checkRule, "Check tag patterns", inner loop: one tag name against rule.TagPatterns
RECURSIVE checkTagPatternsOfTag(_, _, _, _, _)
checkTagPatternsOfTag(resource, rule, tagName, j, acc) ==
    IF j > Len(rule.TagPatterns) THEN acc
    ELSE LET pattern == rule.TagPatterns[j] IN
         checkTagPatternsOfTag(resource, rule, tagName, j + 1,
            IF ~TagPatternValidate(pattern, tagName)
            THEN Append(acc, [Rule |-> rule.Name,
                              Description |-> rule.Description,
                              Resource |-> resource,
                              Message |-> "Tag name '" \o tagName
                                          \o "' does not match pattern: "
                                          \o pattern.Message])
            ELSE acc)

\* checkRule, "Check tag patterns", outer loop `for tagName := range resource.Tags`;
\* keyOrder is the order in which this run of the range statement yields the keys
RECURSIVE checkTagPatternsFrom(_, _, _, _, _)
checkTagPatternsFrom(resource, rule, keyOrder, i, acc) ==
    IF i > Len(keyOrder) THEN acc
    ELSE checkTagPatternsFrom(resource, rule, keyOrder, i + 1,
            checkTagPatternsOfTag(resource, rule, keyOrder[i], 1, acc))

\* checkRule running the forbidden-tags check before the required-tags check
checkRule_ForbiddenFirst(resource, rule, keyOrder) ==
    IF Len(rule.ResourceTypes) > 0 /\ ~isResourceTypeInList(resource.Type, rule.ResourceTypes)
    THEN <<>>
    ELSE IF rule.Condition # Nil /\ ~checkCondition(resource, rule.Condition[1])
    THEN <<>>
    ELSE checkTagPatternsFrom(resource, rule, keyOrder, 1,
            checkTagConstraintsFrom(resource, rule, 1,
                checkRequiredTagsFrom(resource, rule, 1,
                    checkForbiddenTagsFrom(resource, rule, 1, <<>>))))

\* func (v *Validator) checkRule(resource parser.Resource, rule config.Rule) []Violation
checkRule(resource, rule, keyOrder) ==
    IF Len(rule.ResourceTypes) > 0 /\ ~isResourceTypeInList(resource.Type, rule.ResourceTypes)
    THEN <<>>
    ELSE IF rule.Condition # Nil /\ ~checkCondition(resource, rule.Condition[1])
    THEN <<>>
    ELSE checkTagPatternsFrom(resource, rule, keyOrder, 1,
            checkTagConstraintsFrom(resource, rule, 1,
                checkForbiddenTagsFrom(resource, rule, 1,
                    checkRequiredTagsFrom(resource, rule, 1, <<>>))))

\* the orders in which `range m` may yield the keys of a Go map: every permutation
RangeOrders(m) ==
    {o \in [1..Cardinality(DOMAIN m) -> DOMAIN m] :
        \A a, b \in 1..Cardinality(DOMAIN m) : a # b => o[a] # o[b]}

\* the new elements put in front of the accumulated ones
appendViolations_Prepend(acc, more) == more \o acc

\* violations = append(violations, more...)
appendViolations(acc, more) == acc \o more

-----------------------------------------------------------------------------
(* The explored inputs *)

\* every Tags map over TagNames whose values are among the key's TagValues
AllTags ==
    {t \in UNION {[S -> UNION {TagValues[k] : k \in TagNames}] : S \in SUBSET TagNames} :
        \A k \in DOMAIN t : t[k] \in TagValues[k]}

AllResources == [Type : TypeNames, Name : {"web"}, Tags : AllTags]

PatternUpper ==
    [Pattern |-> "^[A-Z][a-zA-Z0-9]*$", Message |-> "Tag names must start with uppercase",
     regex |-> <<"^[A-Z][a-zA-Z0-9]*$">>]
PatternLower ==
    [Pattern |-> "^[a-z_]+$", Message |-> "Tag names must be lowercase",
     regex |-> <<"^[a-z_]+$">>]
PatternShort ==
    [Pattern |-> "^.{1,5}$", Message |-> "Tag names must be short",
     regex |-> <<"^.{1,5}$">>]
\* a TagPattern built by hand, never compiled: regex is nil
PatternUncompiled ==
    [Pattern |-> "^[a-z_]+$", Message |-> "never compiled", regex |-> Nil]

ConstraintEnv == [Tag |-> "environment", AllowedValues |-> <<"dev", "staging", "prod">>]
ConstraintNone == [Tag |-> "Name", AllowedValues |-> <<>>]

\* every rule built from these field values: the gates and the four checks vary independently
AllRules ==
    [Name : {"Rule A"},
     Description : {"Description of rule A"},
     RequiredTags : {<<>>, <<"Owner", "Name">>, <<"Name", "Name">>},
     ForbiddenTags : {<<>>, <<"Test">>, <<"environment", "Test">>},
     Condition : {Nil, <<[Tag |-> "environment", Value |-> "prod"]>>},
     ResourceTypes : {<<>>, <<"aws_instance">>, <<"aws_iam_role", "aws_s3_bucket">>},
     TagConstraints : {<<>>, <<ConstraintNone, ConstraintEnv>>},
     TagPatterns : {<<>>, <<PatternUpper, PatternShort, PatternLower>>,
                    <<PatternUncompiled, PatternUpper>>}]

NoGlobal == [AlwaysRequiredTags |-> <<>>, IgnoreResourceTypes |-> <<>>]

\* a rule with every optional field left out of the YAML
BareRule(name, description) ==
    [Name |-> name, Description |-> description, RequiredTags |-> <<>>,
     ForbiddenTags |-> <<>>, Condition |-> Nil, ResourceTypes |-> <<>>,
     TagConstraints |-> <<>>, TagPatterns |-> <<>>]

\* the rules of the explored multi-rule configurations
ListRules ==
    {[BareRule("Basic Tags", "Basic required tags") EXCEPT !.RequiredTags = <<"Name">>],
     [BareRule("No Test Tags", "Test tags forbidden") EXCEPT !.ForbiddenTags = <<"Test">>],
     [BareRule("Production", "Production resources") EXCEPT
        !.Condition = <<[Tag |-> "environment", Value |-> "prod"]>>,
        !.ResourceTypes = <<"aws_s3_bucket">>,
        !.RequiredTags = <<"Owner">>,
        !.TagConstraints = <<ConstraintNone>>,
        !.TagPatterns = <<PatternUpper, PatternShort>>]}

\* the resources of the explored multi-resource lists
ListResources ==
    {[Type |-> "aws_instance", Name |-> "web", Tags |-> [Test |-> "true"]],
     [Type |-> "aws_instance", Name |-> "db", Tags |-> [Name |-> "x", Owner |-> "team-a"]],
     [Type |-> "aws_s3_bucket", Name |-> "logs", Tags |-> [environment |-> "prod", Name |-> ""]]}

ListGlobals ==
    [AlwaysRequiredTags : {<<>>, <<"Owner">>, <<"Name", "Owner">>, <<"Owner", "Owner">>},
     IgnoreResourceTypes : {<<>>, <<"aws_iam_role", "aws_s3_bucket">>}]

SeqsUpTo(S, n) == UNION {[1..k -> S] : k \in 0..n}

-----------------------------------------------------------------------------
(* The state machine: NewValidator(cfg).Validate(resources) *)

Init ==
    /\ \/ /\ resources \in {<<r>> : r \in AllResources}
          /\ config \in {[Rules |-> <<rule>>, Global |-> NoGlobal] : rule \in AllRules}
       \/ /\ resources \in SeqsUpTo(ListResources, MaxResources)
          /\ config \in [Rules : SeqsUpTo(ListRules, MaxRules), Global : ListGlobals]
    /\ violations = <<>>
    /\ idx = 1
    /\ ruleIdx = 0
    /\ ret = <<>>
    /\ origin = <<>>
    /\ pc = "resource"
    /\ firstRun = <<>>
    /\ planFile = <<>>
    /\ planPc = "idle"
    /\ stack = <<>>
    /\ converted = <<>>
    /\ result = <<>>
    /\ err = <<>>
    /\ MoreIdle

validator == [config |-> config]

\* `if v.shouldIgnoreResource(resource.Type) { continue }`
SkipIgnored ==
    /\ pc = "resource"
    /\ idx <= Len(resources)
    /\ shouldIgnoreResource(validator, resources[idx].Type)
    /\ idx' = idx + 1
    /\ UNCHANGED <<config, resources, violations, ruleIdx, ret, origin, pc>>
    /\ UNCHANGED <<firstRun, planVars, moreVars>>

\* `violations = append(violations, v.checkGlobalRequiredTags(resource)...)`
CheckGlobal ==
    /\ pc = "resource"
    /\ idx <= Len(resources)
    /\ ~shouldIgnoreResource(validator, resources[idx].Type)
    /\ ret' = checkGlobalRequiredTags(validator, resources[idx])
    /\ violations' = appendViolations(violations, ret')
    /\ origin' = appendViolations(origin, [k \in 1..Len(ret') |-> <<idx, 0>>])
    /\ ruleIdx' = 1
    /\ pc' = "rules"
    /\ UNCHANGED <<config, resources, idx>>
    /\ UNCHANGED <<firstRun, planVars, moreVars>>

\* `violations = append(violations, v.checkRule(resource, rule)...)`
CheckRule ==
    /\ pc = "rules"
    /\ ruleIdx <= Len(config.Rules)
    /\ \E keyOrder \in RangeOrders(resources[idx].Tags) :
          ret' = checkRule(resources[idx], config.Rules[ruleIdx], keyOrder)
    /\ violations' = appendViolations(violations, ret')
    /\ origin' = appendViolations(origin, [k \in 1..Len(ret') |-> <<idx, ruleIdx>>])
    /\ ruleIdx' = ruleIdx + 1
    /\ UNCHANGED <<config, resources, idx, pc>>
    /\ UNCHANGED <<firstRun, planVars, moreVars>>

\* the rule loop is exhausted: on to the next resource
NextResource ==
    /\ pc = "rules"
    /\ ruleIdx > Len(config.Rules)
    /\ idx' = idx + 1
    /\ pc' = "resource"
    /\ UNCHANGED <<config, resources, violations, ruleIdx, ret, origin>>
    /\ UNCHANGED <<firstRun, planVars, moreVars>>

\* the resource loop is exhausted: `return violations`
Return ==
    /\ pc = "resource"
    /\ idx > Len(resources)
    /\ pc' = "done"
    /\ UNCHANGED <<config, resources, violations, idx, ruleIdx, ret, origin>>
    /\ UNCHANGED <<firstRun, planVars, moreVars>>

Next ==
    \/ SkipIgnored
    \/ CheckGlobal
    \/ CheckRule
    \/ NextResource
    \/ Return

Spec == Init /\ [][Next]_vars

\* Validate is called once more on the same validator with the same resources
ValidateAgain ==
    /\ pc = "done"
    /\ firstRun = <<>>
    /\ firstRun' = <<violations>>
    /\ violations' = <<>>
    /\ idx' = 1
    /\ ruleIdx' = 0
    /\ ret' = <<>>
    /\ origin' = <<>>
    /\ pc' = "resource"
    /\ UNCHANGED <<config, resources, planVars, moreVars>>

NextTwice ==
    \/ SkipIgnored
    \/ CheckGlobal
    \/ CheckRule
    \/ NextResource
    \/ Return
    \/ ValidateAgain

\* two Validate calls, one after the other, on the same resources and configuration
SpecTwice == Init /\ [][NextTwice]_vars

\* a rule of tag patterns for every resource type, fulfilled by no explored tag name
NamingRule ==
    [BareRule("Naming", "Tag naming") EXCEPT !.TagPatterns = <<PatternLower, PatternShort>>]

\* Validate is about to be called on A ++ B, then on A, then on B
InitConcat ==
    /\ config \in [Rules : SeqsUpTo(ListRules \cup {NamingRule}, MaxRules), Global : ListGlobals]
    /\ resources \in SeqsUpTo(ListResources, MaxResources)
    /\ \E cut \in 0..Len(resources) :
           whole = [all |-> resources, cut |-> cut, config |-> config]
    /\ pieces = <<>>
    /\ FilesIdle
    /\ RunIdle
    /\ violations = <<>>
    /\ idx = 1
    /\ ruleIdx = 0
    /\ ret = <<>>
    /\ origin = <<>>
    /\ pc = "resource"
    /\ firstRun = <<>>
    /\ planFile = <<>>
    /\ planPc = "idle"
    /\ stack = <<>>
    /\ converted = <<>>
    /\ result = <<>>
    /\ err = <<>>

\* Validate(A ++ B) has returned; Validate(A) is called on the same validator
ValidateFirstPart ==
    /\ pc = "done"
    /\ whole # <<>>
    /\ Len(pieces) = 0
    /\ pieces' = <<violations>>
    /\ resources' = SubSeq(whole.all, 1, whole.cut)
    /\ violations' = <<>>
    /\ idx' = 1
    /\ ruleIdx' = 0
    /\ ret' = <<>>
    /\ origin' = <<>>
    /\ pc' = "resource"
    /\ UNCHANGED <<config, firstRun, whole, planVars, filesVars, runVars>>

\* Validate(A) has returned; Validate(B) is called on the same validator
ValidateSecondPart ==
    /\ pc = "done"
    /\ whole # <<>>
    /\ Len(pieces) = 1
    /\ pieces' = Append(pieces, violations)
    /\ resources' = SubSeq(whole.all, whole.cut + 1, Len(whole.all))
    /\ violations' = <<>>
    /\ idx' = 1
    /\ ruleIdx' = 0
    /\ ret' = <<>>
    /\ origin' = <<>>
    /\ pc' = "resource"
    /\ UNCHANGED <<config, firstRun, whole, planVars, filesVars, runVars>>

NextConcat ==
    \/ SkipIgnored
    \/ CheckGlobal
    \/ CheckRule
    \/ NextResource
    \/ Return
    \/ ValidateFirstPart
    \/ ValidateSecondPart

\* Validate called on a list, on its front part and on its rest
SpecConcat == InitConcat /\ [][NextConcat]_vars

-----------------------------------------------------------------------------
(* internal/parser/plan_parser.go: the pure functions.  A Go string that the  *)
(* code takes apart (an address, a prefix) is the sequence of its characters. *)

\* the words that addresses are made of
Words ==
    {"", "module", "data", "main", "null_resource", "aws",
     "aws_vpc", "aws_network", "aws_ami", "aws_instance", "aws_subnet", "google_dns",
     "google_compute_instance", "azurerm_virtual_machine", "alicloud_db", "oci_vcn", "ubuntu", "web",
     "vpc", "network", "subnets", "compute", "private", "example",
     "invalid", "a", "b"}

\* the characters of a word
Letters(w) ==
    CASE w = "" -> <<>>
      [] w = "module" -> <<"m", "o", "d", "u", "l", "e">>
      [] w = "data" -> <<"d", "a", "t", "a">>
      [] w = "main" -> <<"m", "a", "i", "n">>
      [] w = "null_resource" -> <<"n", "u", "l", "l", "_", "r", "e", "s", "o", "u", "r", "c", "e">>
      [] w = "aws" -> <<"a", "w", "s">>
      [] w = "aws_vpc" -> <<"a", "w", "s", "_", "v", "p", "c">>
      [] w = "aws_network" -> <<"a", "w", "s", "_", "n", "e", "t", "w", "o", "r", "k">>
      [] w = "aws_ami" -> <<"a", "w", "s", "_", "a", "m", "i">>
      [] w = "aws_instance" -> <<"a", "w", "s", "_", "i", "n", "s", "t", "a", "n", "c", "e">>
      [] w = "aws_subnet" -> <<"a", "w", "s", "_", "s", "u", "b", "n", "e", "t">>
      [] w = "google_dns" -> <<"g", "o", "o", "g", "l", "e", "_", "d", "n", "s">>
      [] w = "google_compute_instance" -> <<"g", "o", "o", "g", "l", "e", "_", "c", "o", "m", "p", "u", "t", "e", "_", "i", "n", "s", "t", "a", "n", "c", "e">>
      [] w = "azurerm_virtual_machine" -> <<"a", "z", "u", "r", "e", "r", "m", "_", "v", "i", "r", "t", "u", "a", "l", "_", "m", "a", "c", "h", "i", "n", "e">>
      [] w = "alicloud_db" -> <<"a", "l", "i", "c", "l", "o", "u", "d", "_", "d", "b">>
      [] w = "oci_vcn" -> <<"o", "c", "i", "_", "v", "c", "n">>
      [] w = "ubuntu" -> <<"u", "b", "u", "n", "t", "u">>
      [] w = "web" -> <<"w", "e", "b">>
      [] w = "vpc" -> <<"v", "p", "c">>
      [] w = "network" -> <<"n", "e", "t", "w", "o", "r", "k">>
      [] w = "subnets" -> <<"s", "u", "b", "n", "e", "t", "s">>
      [] w = "compute" -> <<"c", "o", "m", "p", "u", "t", "e">>
      [] w = "private" -> <<"p", "r", "i", "v", "a", "t", "e">>
      [] w = "example" -> <<"e", "x", "a", "m", "p", "l", "e">>
      [] w = "invalid" -> <<"i", "n", "v", "a", "l", "i", "d">>
      [] w = "a" -> <<"a">>
      [] w = "b" -> <<"b">>

\* string(chars): the string with the given characters
RECURSIVE Str(_)
Str(chars) == IF chars = <<>> THEN "" ELSE chars[1] \o Str(Tail(chars))

\* strings.Join(segments, "."), as characters
RECURSIVE Dotted(_)
Dotted(segments) ==
    IF segments = <<>> THEN <<>>
    ELSE IF Len(segments) = 1 THEN Letters(segments[1])
    ELSE Letters(segments[1]) \o <<".">> \o Dotted(Tail(segments))

\* strings.Split(s, "."): the pieces of s between its dots, from character i on
RECURSIVE SplitFrom(_, _, _, _)
SplitFrom(s, i, piece, parts) ==
    IF i > Len(s) THEN Append(parts, piece)
    ELSE IF s[i] = "." THEN SplitFrom(s, i + 1, <<>>, Append(parts, piece))
    ELSE SplitFrom(s, i + 1, Append(piece, s[i]), parts)

Split(s) == SplitFrom(s, 1, <<>>, <<>>)

\* strings.HasPrefix
HasPrefix(s, prefix) ==
    /\ Len(s) >= Len(prefix)
    /\ SubSeq(s, 1, Len(prefix)) = prefix

prefixes ==
    <<<<"a", "w", "s", "_">>,
      <<"g", "o", "o", "g", "l", "e", "_">>,
      <<"a", "z", "u", "r", "e", "r", "m", "_">>,
      <<"a", "l", "i", "c", "l", "o", "u", "d", "_">>,
      <<"o", "c", "i", "_">> >>

isResourceType(s) == \E k \in 1..Len(prefixes) : HasPrefix(s, prefixes[k])

\* the scan runs from the last segment towards the first
RECURSIVE findResourceTypeFrom_Rightmost(_, _)
findResourceTypeFrom_Rightmost(parts, i) ==
    LET j == Len(parts) - i
    IN  IF i > Len(parts) - 1 THEN <<<<>>, <<>>>>
        ELSE IF isResourceType(parts[j]) THEN <<parts[j], parts[j + 1]>>
        ELSE findResourceTypeFrom_Rightmost(parts, i + 1)

\* the loop of convertPlannedResource over parts[i-1], ..., parts[len(parts)-2] (i counts
\* from 1 here): <<resourceType, resourceName>> as the loop leaves them
RECURSIVE findResourceTypeFrom(_, _)
findResourceTypeFrom(parts, i) ==
    IF i > Len(parts) - 1 THEN <<<<>>, <<>>>>
    ELSE IF isResourceType(parts[i])
         THEN <<parts[i], IF i + 1 <= Len(parts) THEN parts[i + 1] ELSE <<>>>>
    ELSE findResourceTypeFrom(parts, i + 1)

\* the first two segments are taken
fallbackIdentity_FirstTwo(parts) == <<parts[1], parts[2]>>

\* "Fallback: assume last two parts are type and name"
fallbackIdentity(parts) == <<parts[Len(parts) - 1], parts[Len(parts)]>>

\* every entry is copied, a value that is not a string as its JSON text
stringEntries_All(t) == [k \in DOMAIN t |-> t[k].str]

\* the entries `for k, v := range t` copies: those whose value is a string
stringEntries(t) == [k \in {x \in DOMAIN t : t[x].kind = "string"} |-> t[k].str]

\* an entry already in tags is kept
overlay_KeepFirst(tags, more) ==
    [k \in DOMAIN tags \cup DOMAIN more |-> IF k \in DOMAIN tags THEN tags[k] ELSE more[k]]

\* tags[k] = str for every entry of more
overlay(tags, more) ==
    [k \in DOMAIN tags \cup DOMAIN more |-> IF k \in DOMAIN more THEN more[k] ELSE tags[k]]

\* one `if v, ok := values[field]; ok { switch t := v.(type) { case map[string]interface{}: ... } }`
extractField(tags, values, field) ==
    IF field \in DOMAIN values /\ values[field].kind = "object"
    THEN overlay(tags, stringEntries(values[field].obj))
    ELSE tags

extractTagsFromValues(values) ==
    extractField(extractField(<<>>, values, "tags"), values, "tags_all")

\* hcl.Pos{Line: 1, Column: 1, Byte: 0}
PlanPos == [Line |-> 1, Column |-> 1, Byte |-> 0]

\* *Resource: <<>> for nil, <<resource>> otherwise
convertPlannedResource(planned, filename) ==
    LET parts == Split(planned.Address)
        found == findResourceTypeFrom(parts, 1)
        useFallback == found[1] = <<>> \/ found[2] = <<>>
        identity == IF useFallback THEN fallbackIdentity(parts) ELSE found
    IN  IF Len(parts) < 2 THEN Nil
        ELSE IF useFallback /\ ~(Len(parts) >= 2) THEN Nil
        ELSE <<[Type |-> Str(identity[1]),
                Name |-> Str(identity[2]),
                Tags |-> extractTagsFromValues(planned.Values),
                Location |-> [Filename |-> filename, Start |-> PlanPos, End |-> PlanPos],
                File |-> filename]>>

-----------------------------------------------------------------------------
(* The explored plan files *)

\* the longest address, in segments, among the addresses built from AddressWords
MaxSegments == 4
\* the deepest module nesting among the module-nested addresses
MaxDepth == 2
\* the most child modules, at all depths together, in a plan
MaxChildModules == 3

\* a decoded JSON value (interface{}): its dynamic type, its text, its members if an object
JString(s) == [kind |-> "string", str |-> s, obj |-> <<>>]
JNumber == [kind |-> "number", str |-> "1", obj |-> <<>>]
JBool == [kind |-> "bool", str |-> "true", obj |-> <<>>]
JNull == [kind |-> "null", str |-> "null", obj |-> <<>>]
JObject(o) == [kind |-> "object", str |-> "", obj |-> o]

PlanTagNames == {"Name", "Environment"}

\* the values a member of a tags object takes
MemberValues == {JString("a"), JString("b"), JNumber, JNull}

\* every object over PlanTagNames
TagObjects == UNION {[S -> MemberValues] : S \in SUBSET PlanTagNames}

\* what values.tags and values.tags_all may hold when present
TagFieldValues == {JObject(o) : o \in TagObjects} \cup {JString("Name=web"), JBool, JNull}

\* values: instance_type always, tags and tags_all each absent or present
AllValues ==
    LET other == [instance_type |-> JString("t2.micro")]
        with(values, field, v) ==
            [k \in DOMAIN values \cup {field} |-> IF k = field THEN v ELSE values[k]]
        withTags == {other} \cup {with(other, "tags", v) : v \in TagFieldValues}
    IN  withTags \cup {with(values, "tags_all", v) : values \in withTags, v \in TagFieldValues}

WebValues == [instance_type |-> JString("t2.micro"),
              tags |-> JObject([Name |-> JString("a")])]

AddressWords == {"", "module", "aws", "aws_vpc", "google_dns", "main"}

\* every address of at most MaxSegments segments over AddressWords
GenericAddresses == {Dotted(segments) : segments \in SeqsUpTo(AddressWords, MaxSegments)}

ModuleNames == {"vpc", "aws_network"}

\* module.<n1>.module.<n2>...
RECURSIVE ModuleSegments(_)
ModuleSegments(names) ==
    IF names = <<>> THEN <<>> ELSE <<"module", names[1]>> \o ModuleSegments(Tail(names))

\* <type>.<name> under at most MaxDepth modules
NestedAddresses ==
    {Dotted(ModuleSegments(names) \o <<type, "main">>) :
        names \in SeqsUpTo(ModuleNames, MaxDepth),
        type \in {"aws_vpc", "google_dns", "azurerm_virtual_machine", "alicloud_db",
                  "oci_vcn", "null_resource"}}

\* the addresses of TestConvertPlannedResource, and addresses with empty segments
TestAddresses ==
    {Dotted(segments) : segments \in
        {<<"aws_instance", "web">>,
         <<"module", "vpc", "aws_vpc", "main">>,
         <<"module", "network", "module", "subnets", "aws_subnet", "private">>,
         <<"google_compute_instance", "example">>,
         <<"module", "compute", "azurerm_virtual_machine", "main">>,
         <<"invalid">>,
         <<"data", "aws_ami", "ubuntu">>,
         <<"aws_instance", "">>,
         <<"a", "", "b">>,
         <<"data", "null_resource", "main">>,
         <<"null_resource", "aws_vpc">>}}

Addresses == GenericAddresses \cup NestedAddresses \cup TestAddresses

\* a PlannedResource with the given address (segments) and values
Planned(segments, type, name, values) ==
    [Address |-> Dotted(segments), Type |-> type, Name |-> name, Values |-> values]

\* one record at every address; its own type and name fields agree with nothing or are set
AddressRecords ==
    {[Address |-> a, Type |-> own[1], Name |-> own[2], Values |-> WebValues] :
        a \in Addresses, own \in {<<"", "">>, <<"aws_s3_bucket", "logs">>}}

\* one record for every values map
ValuesRecords == {Planned(<<"aws_instance", "web">>, "aws_instance", "web", v) : v \in AllValues}

\* the resource lists of the modules of the plan trees
ResourceLists ==
    {<<>>,
     <<Planned(<<"aws_instance", "web">>, "aws_instance", "web", WebValues),
       Planned(<<"invalid">>, "", "", WebValues),
       Planned(<<"module", "vpc", "aws_vpc", "main">>, "aws_vpc", "main", WebValues)>>,
     <<Planned(<<"data", "aws_ami", "ubuntu">>, "aws_ami", "ubuntu", WebValues)>>}

\* the lists of child modules with at most n modules in them, nested ones counted
RECURSIVE ChildModuleLists(_)
ChildModuleLists(n) ==
    {<<>>} \cup
    UNION {{<<[Address |-> Dotted(<<"module", "vpc">>), Resources |-> rs, ChildModules |-> cs]>>
                \o rest :
            rs \in ResourceLists, cs \in ChildModuleLists(k - 1),
            rest \in ChildModuleLists(n - k)} : k \in 1..n}

RootOf(rs, cs) == [PlannedValues |-> [RootModule |-> [Resources |-> rs, ChildModules |-> cs]]]

\* the decoded plans: a single record in the root module, or a tree of modules
AllPlans ==
    {RootOf(<<r>>, <<>>) : r \in AddressRecords \cup ValuesRecords}
    \cup {RootOf(rs, cs) : rs \in ResourceLists, cs \in ChildModuleLists(MaxChildModules)}

\* the file: it cannot be read, or its content is not a plan's JSON, or it decodes to plan
AllPlanFiles ==
    {[name |-> "plan.json", kind |-> k, plan |-> RootOf(<<>>, <<>>)] :
        k \in {"unreadable", "invalid"}}
    \cup {[name |-> "plan.json", kind |-> "plan", plan |-> p] : p \in AllPlans}

-----------------------------------------------------------------------------
(* The state machine: ParseTerraformPlan(filename) *)

InitPlan ==
    /\ config = [Rules |-> <<>>, Global |-> NoGlobal]
    /\ resources = <<>>
    /\ violations = <<>>
    /\ idx = 1
    /\ ruleIdx = 0
    /\ ret = <<>>
    /\ origin = <<>>
    /\ pc = "idle"
    /\ firstRun = <<>>
    /\ planFile \in AllPlanFiles
    /\ planPc = "read"
    /\ stack = <<>>
    /\ converted = <<>>
    /\ result = <<>>
    /\ err = <<>>
    /\ MoreIdle

\* the loop is in its child modules before its resources
nextStep_ChildrenFirst(frame) ==
    IF frame.ci <= Len(frame.ChildModules) THEN "child"
    ELSE IF frame.ri <= Len(frame.Resources) THEN "resource"
    ELSE "return"

\* where a call of processModuleResources/processChildModule stands: in its first loop
\* (resources), in its second (child modules), or at its end
nextStep(frame) ==
    IF frame.ri <= Len(frame.Resources) THEN "resource"
    ELSE IF frame.ci <= Len(frame.ChildModules) THEN "child"
    ELSE "return"

\* a nil res is recorded in Errors
appendResource_ErrorOnNil(pr, res) ==
    IF res # Nil THEN [pr EXCEPT !.Resources = Append(@, res[1])]
    ELSE [pr EXCEPT !.Errors = Append(@, "invalid address")]

\* if res != nil { result.Resources = append(result.Resources, *res) }
appendResource(pr, res) ==
    IF res # Nil THEN [pr EXCEPT !.Resources = Append(@, res[1])] ELSE pr

\* the call frame of a module: its lists and the positions of its two loops
Frame(module) ==
    [Resources |-> module.Resources, ChildModules |-> module.ChildModules, ri |-> 1, ci |-> 1]

Top == stack[Len(stack)]

\* os.ReadFile fails
ReadFileFails ==
    /\ planPc = "read"
    /\ planFile.kind = "unreadable"
    /\ result' = Nil
    /\ err' = <<"failed to read plan file">>
    /\ planPc' = "returned"
    /\ UNCHANGED <<moreVars, validateVars, planFile, stack, converted>>

\* a result is handed back with the error
UnmarshalFails_WithResult ==
    /\ planPc = "read"
    /\ planFile.kind = "invalid"
    /\ result' = <<[Resources |-> <<>>, Errors |-> <<>>]>>
    /\ err' = <<"failed to parse plan JSON">>
    /\ planPc' = "returned"
    /\ UNCHANGED <<moreVars, validateVars, planFile, stack, converted>>

\* json.Unmarshal fails
UnmarshalFails ==
    /\ planPc = "read"
    /\ planFile.kind = "invalid"
    /\ result' = Nil
    /\ err' = <<"failed to parse plan JSON">>
    /\ planPc' = "returned"
    /\ UNCHANGED <<moreVars, validateVars, planFile, stack, converted>>

\* the file is read and decoded, the result allocated, processModuleResources called
ParseBegin ==
    /\ planPc = "read"
    /\ planFile.kind = "plan"
    /\ result' = <<[Resources |-> <<>>, Errors |-> <<>>]>>
    /\ stack' = <<Frame(planFile.plan.PlannedValues.RootModule)>>
    /\ planPc' = "modules"
    /\ UNCHANGED <<moreVars, validateVars, planFile, converted, err>>

\* one turn of `for _, resource := range module.Resources`
ConvertResource ==
    /\ planPc = "modules"
    /\ stack # <<>>
    /\ nextStep(Top) = "resource"
    /\ LET planned == Top.Resources[Top.ri]
           res == convertPlannedResource(planned, planFile.name)
       IN  /\ converted' = <<[planned |-> planned, res |-> res]>>
           /\ result' = <<appendResource(result[1], res)>>
    /\ stack' = [stack EXCEPT ![Len(stack)].ri = @ + 1]
    /\ UNCHANGED <<moreVars, validateVars, planFile, planPc, err>>

\* one turn of `for _, child := range module.ChildModules`: processChildModule is called
EnterChild ==
    /\ planPc = "modules"
    /\ stack # <<>>
    /\ nextStep(Top) = "child"
    /\ stack' = Append([stack EXCEPT ![Len(stack)].ci = @ + 1],
                       Frame(Top.ChildModules[Top.ci]))
    /\ UNCHANGED <<moreVars, validateVars, planFile, planPc, converted, result, err>>

\* processModuleResources/processChildModule returns
LeaveModule ==
    /\ planPc = "modules"
    /\ stack # <<>>
    /\ nextStep(Top) = "return"
    /\ stack' = SubSeq(stack, 1, Len(stack) - 1)
    /\ UNCHANGED <<moreVars, validateVars, planFile, planPc, converted, result, err>>

\* return result, nil
ReturnResult ==
    /\ planPc = "modules"
    /\ stack = <<>>
    /\ planPc' = "returned"
    /\ UNCHANGED <<moreVars, validateVars, planFile, stack, converted, result, err>>

NextPlan ==
    \/ ReadFileFails
    \/ UnmarshalFails
    \/ ParseBegin
    \/ ConvertResource
    \/ EnterChild
    \/ LeaveModule
    \/ ReturnResult

SpecPlan == InitPlan /\ [][NextPlan]_vars

-----------------------------------------------------------------------------
(* internal/parser/parser.go: the pure functions.  A parsed file is the      *)
(* syntax tree hclparse hands back: blocks with a type, labels, a defining   *)
(* range and a body of attributes (name -> expression) and nested blocks.    *)

\* the expressions of hclsyntax that the explored files contain
LiteralValueExpr(ty, str) == [expr |-> "LiteralValueExpr", ty |-> ty, str |-> str]
TemplateExpr(parts) == [expr |-> "TemplateExpr", parts |-> parts]
TemplateWrapExpr(wrapped) == [expr |-> "TemplateWrapExpr", wrapped |-> wrapped]
ScopeTraversalExpr(traversal) == [expr |-> "ScopeTraversalExpr", traversal |-> traversal]
FunctionCallExpr(name) == [expr |-> "FunctionCallExpr", name |-> name]
ObjectConsKeyExpr(wrapped) == [expr |-> "ObjectConsKeyExpr", wrapped |-> wrapped]
ObjectConsExpr(items) == [expr |-> "ObjectConsExpr", items |-> items]

\* (*TemplateExpr).IsStringLiteral: a single part, and that part a literal
IsStringLiteral(e) ==
    /\ Len(e.parts) = 1
    /\ e.parts[1].expr = "LiteralValueExpr"

\* a template is taken for its text whatever its parts are
getStringValue_AnyTemplate(expr) ==
    CASE expr.expr = "LiteralValueExpr" ->
            IF expr.ty = "string" THEN <<expr.str, TRUE>> ELSE <<"", FALSE>>
      [] expr.expr = "TemplateExpr" ->
            IF Len(expr.parts) >= 1 /\ expr.parts[1].expr = "LiteralValueExpr"
            THEN <<expr.parts[1].str, TRUE>>
            ELSE <<"${}", TRUE>>
      [] OTHER -> <<"", FALSE>>

\* (string, bool)
getStringValue(expr) ==
    CASE expr.expr = "LiteralValueExpr" ->
            IF expr.ty = "string" THEN <<expr.str, TRUE>> ELSE <<"", FALSE>>
      [] expr.expr = "TemplateExpr" ->
            IF IsStringLiteral(expr) /\ expr.parts[1].ty = "string"
            THEN <<expr.parts[1].str, TRUE>>
            ELSE <<"", FALSE>>
      [] OTHER -> <<"", FALSE>>

\* a traversal of a single step, which starts at its root: its name is the key
rootName(e) ==
    IF Len(e.traversal) = 1 THEN <<e.traversal[1], TRUE>> ELSE <<"", FALSE>>

\* the switch on item.KeyExpr: (key, keyOk)
keyOf(k) ==
    CASE k.expr = "ObjectConsKeyExpr" ->
            IF k.wrapped.expr = "ScopeTraversalExpr" /\ Len(k.wrapped.traversal) = 1
            THEN rootName(k.wrapped)
            ELSE getStringValue(k.wrapped)
      [] k.expr = "ScopeTraversalExpr" -> rootName(k)
      [] k.expr = "LiteralValueExpr" -> getStringValue(k)
      [] k.expr = "TemplateExpr" -> getStringValue(k)
      [] OTHER -> <<"", FALSE>>

\* tags[key] = val
setTag(tags, key, val) ==
    [k \in DOMAIN tags \cup {key} |-> IF k = key THEN val ELSE tags[k]]

\* the loop `for _, item := range e.Items`, from item i on
RECURSIVE extractItemsFrom(_, _, _)
extractItemsFrom(items, i, tags) ==
    IF i > Len(items) THEN tags
    ELSE LET key == keyOf(items[i].KeyExpr)
             val == getStringValue(items[i].ValueExpr)
         IN  extractItemsFrom(items, i + 1,
                 IF key[2] /\ val[2] THEN setTag(tags, key[1], val[1]) ELSE tags)

extractTagsFromExpression(expr, tags) ==
    IF expr.expr = "ObjectConsExpr" THEN extractItemsFrom(expr.items, 1, tags) ELSE tags

\* `for name, attr := range block.Body.Attributes` of a tags block: the string-valued ones
RECURSIVE extractAttributes(_, _, _)
extractAttributes(attributes, names, tags) ==
    IF names = {} THEN tags
    ELSE LET name == CHOOSE n \in names : TRUE
             val == getStringValue(attributes[name])
         IN  extractAttributes(attributes, names \ {name},
                 IF val[2] THEN setTag(tags, name, val[1]) ELSE tags)

\* the loop `for _, block := range body.Blocks` of extractTags, from block i on
RECURSIVE extractTagBlocksFrom(_, _, _)
extractTagBlocksFrom(blocks, i, tags) ==
    IF i > Len(blocks) THEN tags
    ELSE extractTagBlocksFrom(blocks, i + 1,
             IF blocks[i].Type = "tags"
             THEN extractAttributes(blocks[i].Body.Attributes,
                                    DOMAIN blocks[i].Body.Attributes, tags)
             ELSE tags)

extractTags(body) ==
    extractTagBlocksFrom(body.Blocks, 1,
        IF "tags" \in DOMAIN body.Attributes
        THEN extractTagsFromExpression(body.Attributes["tags"], <<>>)
        ELSE <<>>)

\* a block of any type with two labels is taken
isResourceBlock_AnyType(block) == Len(block.Labels) >= 2

\* block.Type == "resource" && len(block.Labels) >= 2
isResourceBlock(block) == block.Type = "resource" /\ Len(block.Labels) >= 2

\* the loop `for _, block := range body.Blocks` of parseFile, from block i on
RECURSIVE parseBlocksFrom(_, _, _, _)
parseBlocksFrom(blocks, i, filename, rs) ==
    IF i > Len(blocks) THEN rs
    ELSE parseBlocksFrom(blocks, i + 1, filename,
             IF isResourceBlock(blocks[i])
             THEN Append(rs, [Type |-> blocks[i].Labels[1],
                              Name |-> blocks[i].Labels[2],
                              Tags |-> extractTags(blocks[i].Body),
                              Location |-> [Filename |-> filename,
                                            Start |-> blocks[i].DefRange.Start,
                                            End |-> blocks[i].DefRange.End],
                              File |-> filename])
             ELSE rs)

\* ([]Resource, error): content is what ParseHCLFile makes of the file's bytes
parseFile(filename, content) ==
    IF content.kind = "malformed"
    THEN [resources |-> <<>>, err |-> <<"failed to parse HCL: " \o content.diags>>]
    ELSE IF content.kind # "native"
    THEN [resources |-> <<>>, err |-> <<"unexpected body type">>]
    ELSE [resources |-> parseBlocksFrom(content.Blocks, 1, filename, <<>>), err |-> Nil]

\* the characters of the names and paths of the explored file systems
PathChars(s) ==
    CASE s = "." -> <<".">>
      [] s = "infra" -> <<"i", "n", "f", "r", "a">>
      [] s = "missing" -> <<"m", "i", "s", "s", "i", "n", "g">>
      [] s = "solo.tf" -> <<"s", "o", "l", "o", ".", "t", "f">>
      [] s = "a.tf" -> <<"a", ".", "t", "f">>
      [] s = "b.tf" -> <<"b", ".", "t", "f">>
      [] s = "mod" -> <<"m", "o", "d">>
      [] s = "notes.md" -> <<"n", "o", "t", "e", "s", ".", "m", "d">>
      [] s = "c.tf" -> <<"c", ".", "t", "f">>
      [] s = "env.tf" -> <<"e", "n", "v", ".", "t", "f">>
      [] s = "z.tf" -> <<"z", ".", "t", "f">>
      [] s = "main.tf" -> <<"m", "a", "i", "n", ".", "t", "f">>
      [] s = ".tf" -> <<".", "t", "f">>
      [] s = "/" -> <<"/">>

\* strings.HasSuffix
HasSuffix(s, suffix) ==
    /\ Len(s) >= Len(suffix)
    /\ SubSeq(s, Len(s) - Len(suffix) + 1, Len(s)) = suffix

\* the byte of a character
Code(c) ==
    CASE c = " " -> 32 [] c = "-" -> 45 [] c = "." -> 46 [] c = "/" -> 47
      [] c = "A" -> 65 [] c = "B" -> 66 [] c = "N" -> 78 [] c = "P" -> 80
      [] c = "R" -> 82 [] c = "T" -> 84 [] c = "_" -> 95
      [] c = "j" -> 106 [] c = "p" -> 112 [] c = "q" -> 113 [] c = "u" -> 117
      [] c = "a" -> 97 [] c = "b" -> 98 [] c = "c" -> 99 [] c = "d" -> 100
      [] c = "e" -> 101 [] c = "f" -> 102 [] c = "g" -> 103 [] c = "i" -> 105
      [] c = "l" -> 108 [] c = "m" -> 109 [] c = "n" -> 110 [] c = "o" -> 111
      [] c = "r" -> 114 [] c = "s" -> 115 [] c = "t" -> 116 [] c = "v" -> 118
      [] c = "z" -> 122

\* a < b for Go strings, given as characters: the bytewise order
RECURSIVE LessChars(_, _)
LessChars(a, b) ==
    IF b = <<>> THEN FALSE
    ELSE IF a = <<>> THEN TRUE
    ELSE IF Code(a[1]) # Code(b[1]) THEN Code(a[1]) < Code(b[1])
    ELSE LessChars(Tail(a), Tail(b))

\* readDirNames: the names of a directory's entries, sorted (sort.Strings)
RECURSIVE readDirNames(_)
readDirNames(names) ==
    IF names = {} THEN <<>>
    ELSE LET first == CHOOSE n \in names :
                          \A m \in names \ {n} : LessChars(PathChars(n), PathChars(m))
         IN  <<first>> \o readDirNames(names \ {first})

\* filepath.Join(path, name), as characters
JoinPath(path, name) ==
    IF path = PathChars(".") THEN PathChars(name) ELSE path \o PathChars("/") \o PathChars(name)

\* one call of the function handed to filepath.Walk: walkFn(filePath, info, err)
Visit(filePath, node, e) == [filePath |-> filePath, node |-> node, err |-> e]

\* the calls before the first one that is handed an error, and that one: the function
\* handed to Walk returns the error it is given, which ends the walk
RECURSIVE UntilError(_)
UntilError(calls) ==
    IF calls = <<>> THEN <<>>
    ELSE IF calls[1].err # Nil THEN <<calls[1]>>
    ELSE <<calls[1]>> \o UntilError(Tail(calls))

\* filepath's walk(path, info, walkFn): the calls of walkFn it makes if none returns an error
RECURSIVE walk(_, _), walkNames(_, _, _)
walk(path, node) ==
    IF node.kind # "dir" THEN <<Visit(path, node, Nil)>>
    ELSE IF ~node.readable THEN <<Visit(path, node, <<"open: permission denied">>)>>
    ELSE <<Visit(path, node, Nil)>> \o walkNames(path, node, readDirNames(DOMAIN node.entries))

walkNames(path, node, names) ==
    IF names = <<>> THEN <<>>
    ELSE LET filename == JoinPath(path, names[1])
             entry == node.entries[names[1]]
         IN  (IF entry.kind = "broken"
              THEN <<Visit(filename, entry, <<"lstat: no such file or directory">>)>>
              ELSE walk(filename, entry))
             \o walkNames(path, node, Tail(names))

\* filepath.Walk(root, walkFn) in the file system fs: the calls of walkFn it makes
Walk(fs, root) ==
    IF root \notin DOMAIN fs
    THEN <<Visit(PathChars(root), [kind |-> "broken"], <<"lstat: no such file or directory">>)>>
    ELSE UntilError(walk(PathChars(root), fs[root]))

-----------------------------------------------------------------------------
(* The explored source trees *)

\* the most root paths handed to ParseTerraformFiles
MaxPaths == 2

\* the range of a block header on the given line
RangeAt(line) ==
    [Start |-> [Line |-> line, Column |-> 1, Byte |-> 0],
     End |-> [Line |-> line, Column |-> 30, Byte |-> 0]]

EmptyBody == [Attributes |-> <<>>, Blocks |-> <<>>]

Block(type, labels, line, body) ==
    [Type |-> type, Labels |-> labels, DefRange |-> RangeAt(line), Body |-> body]

\* "text": a template of one literal part
Quoted(text) == TemplateExpr(<<LiteralValueExpr("string", text)>>)

\* key = value in an object constructor, as the HCL parser builds it
Item(key, value) == [KeyExpr |-> ObjectConsKeyExpr(key), ValueExpr |-> value]

\* a body with the attribute tags = expr
TagsBody(expr) == [Attributes |-> [tags |-> expr], Blocks |-> <<>>]

Native(blocks) == [kind |-> "native", Blocks |-> blocks]
Malformed == [kind |-> "malformed", diags |-> "Argument or block definition required"]

\* two resources with tags and a variable between them
ContentWeb ==
    Native(<<Block("resource", <<"aws_instance", "web">>, 1,
                   TagsBody(ObjectConsExpr(<<Item(ScopeTraversalExpr(<<"Name">>), Quoted("web"))>>))),
             Block("variable", <<"region">>, 7, EmptyBody),
             Block("resource", <<"aws_s3_bucket", "logs">>, 9, EmptyBody)>>)

\* blocks of other types and label counts around one resource
ContentOdd ==
    Native(<<Block("resource", <<"lonely">>, 1, EmptyBody),
             Block("data", <<"aws_ami", "ubuntu">>, 3, EmptyBody),
             Block("resource", <<"aws_vpc", "main", "extra">>, 6, EmptyBody),
             Block("locals", <<>>, 9, EmptyBody),
             Block("module", <<"vpc">>, 12, EmptyBody)>>)

ContentDb ==
    Native(<<Block("resource", <<"aws_db_instance", "db">>, 2, EmptyBody)>>)

File(content) == [kind |-> "file", content |-> content]
Dir(entries) == [kind |-> "dir", readable |-> TRUE, entries |-> entries]
UnreadableDir == [kind |-> "dir", readable |-> FALSE, entries |-> <<>>]
Broken == [kind |-> "broken"]

Opt(S) == {<<>>} \cup {<<x>> : x \in S}

\* a directory with the entries a.tf, b.tf, mod and notes.md, each <<node>> or <<>> (absent)
WorkDir(a, b, m, n) ==
    LET all == [x \in {"a.tf", "b.tf", "mod", "notes.md"} |->
                   CASE x = "a.tf" -> a [] x = "b.tf" -> b [] x = "mod" -> m [] x = "notes.md" -> n]
    IN  Dir([x \in {y \in DOMAIN all : all[y] # <<>>} |-> all[x][1]])

\* the directories that "." may be
WorkDirs ==
    {WorkDir(a, b, m, n) :
        a \in Opt({File(ContentWeb), File(ContentOdd), File(Malformed)}),
        b \in Opt({File(ContentDb), File(Malformed)}),
        m \in Opt({Dir([x \in {"c.tf"} |-> File(ContentDb)]),
                   Dir([x \in {"c.tf"} |-> File(Malformed)]),
                   UnreadableDir, Broken}),
        n \in Opt({File(Malformed)})}

\* "infra": main.tf beside a directory whose name ends in .tf
InfraDir ==
    Dir([x \in {"main.tf", "env.tf"} |->
            IF x = "main.tf" THEN File(ContentWeb)
            ELSE Dir([y \in {"z.tf"} |-> File(ContentDb)])])

\* the file systems: the roots ".", "infra" and "solo.tf" exist, "missing" does not
FileSystems ==
    {[root \in {".", "infra", "solo.tf"} |->
         CASE root = "." -> d [] root = "infra" -> InfraDir [] root = "solo.tf" -> File(ContentDb)] :
     d \in WorkDirs}

RootNames == {".", "infra", "solo.tf", "missing"}

\* the key expressions of the explored tags objects, as item.KeyExpr holds them
KeyExprs ==
    {ObjectConsKeyExpr(k) : k \in
        {ScopeTraversalExpr(<<"Name">>),
         ScopeTraversalExpr(<<"var", "key">>),
         Quoted("Owner"),
         TemplateExpr(<<LiteralValueExpr("string", "env-"), ScopeTraversalExpr(<<"var", "env">>)>>),
         TemplateWrapExpr(ScopeTraversalExpr(<<"var", "key">>)),
         LiteralValueExpr("string", "Team"),
         LiteralValueExpr("number", "1"),
         FunctionCallExpr("upper")}}
    \cup {ScopeTraversalExpr(<<"Name">>), ScopeTraversalExpr(<<"var", "key">>),
          LiteralValueExpr("string", "Team"), Quoted("Owner")}

\* the value expressions of the explored tags objects
ValueExprs ==
    {Quoted("web"),
     Quoted(""),
     LiteralValueExpr("string", "prod"),
     LiteralValueExpr("number", "5"),
     LiteralValueExpr("bool", "true"),
     TemplateExpr(<<LiteralValueExpr("string", "web-"), ScopeTraversalExpr(<<"var", "env">>)>>),
     TemplateWrapExpr(ScopeTraversalExpr(<<"var", "env">>)),
     ScopeTraversalExpr(<<"var", "name">>),
     FunctionCallExpr("upper")}

AllItems == [KeyExpr : KeyExprs, ValueExpr : ValueExprs]

\* Name = "web" and "Owner" = "team", written out
LiteralItems ==
    {Item(ScopeTraversalExpr(<<"Name">>), Quoted("literal")),
     Item(Quoted("Owner"), Quoted("team"))}

\* what the attribute tags may be: an object of one item, or of one item beside a
\* literal one, or no object at all
TagsExprs ==
    {ObjectConsExpr(<<>>)}
    \cup {ObjectConsExpr(<<i>>) : i \in AllItems}
    \cup {ObjectConsExpr(<<i, l>>) : i \in AllItems, l \in LiteralItems}
    \cup {ObjectConsExpr(<<l, i>>) : i \in AllItems, l \in LiteralItems}
    \cup {ScopeTraversalExpr(<<"var", "tags">>), FunctionCallExpr("merge")}

\* the bodies of the explored resource blocks: no tags, the attribute tags, tags blocks
ResourceBodies ==
    {EmptyBody}
    \cup {TagsBody(x) : x \in TagsExprs}
    \cup {[Attributes |-> [tags |-> ObjectConsExpr(<<l>>)],
           Blocks |-> <<Block("tags", <<>>, 3, [Attributes |-> attrs, Blocks |-> <<>>])>>] :
            l \in LiteralItems,
            attrs \in {[Name |-> Quoted("block"), Cost |-> v] : v \in ValueExprs}}

\* "." holding a.tf alone, a.tf holding one resource block
TagFileSystems ==
    {[root \in {"."} |->
         Dir([x \in {"a.tf"} |->
                 File(Native(<<Block("resource", <<"aws_instance", "web">>, 1, body)>>))])] :
     body \in ResourceBodies}

-----------------------------------------------------------------------------
(* The state machine: ParseTerraformFiles(paths) *)

InitFiles ==
    /\ \/ /\ fsys \in FileSystems
          /\ paths \in SeqsUpTo(RootNames, MaxPaths)
       \/ /\ fsys \in TagFileSystems
          /\ paths = <<".">>
    /\ filesPc = "paths"
    /\ pathIdx = 1
    /\ visits = <<>>
    /\ visitIdx = 1
    /\ parsed = <<[Resources |-> <<>>, Errors |-> <<>>]>>
    /\ walkErr = Nil
    /\ config = [Rules |-> <<>>, Global |-> NoGlobal]
    /\ resources = <<>>
    /\ violations = <<>>
    /\ idx = 1
    /\ ruleIdx = 0
    /\ ret = <<>>
    /\ origin = <<>>
    /\ pc = "idle"
    /\ firstRun = <<>>
    /\ planFile = <<>>
    /\ planPc = "idle"
    /\ stack = <<>>
    /\ converted = <<>>
    /\ result = <<>>
    /\ err = <<>>
    /\ ConcatIdle
    /\ RunIdle

ThisVisit == visits[visitIdx]

\* filepath.Walk is called on the next path
WalkBegin ==
    /\ filesPc = "paths"
    /\ pathIdx <= Len(paths)
    /\ visits' = Walk(fsys, paths[pathIdx])
    /\ visitIdx' = 1
    /\ filesPc' = "walk"
    /\ UNCHANGED <<validateVars, planVars, concatVars, runVars, paths, fsys, pathIdx, parsed, walkErr>>

\* the result accumulated so far is handed back with the error
WalkFails_KeepResult ==
    /\ filesPc = "walk"
    /\ visitIdx <= Len(visits)
    /\ ThisVisit.err # Nil
    /\ walkErr' = ThisVisit.err
    /\ filesPc' = "returned"
    /\ UNCHANGED <<validateVars, planVars, concatVars, runVars, paths, fsys, pathIdx, visits, visitIdx, parsed>>

\* the function is handed an error and returns it; Walk returns it; return nil, err
WalkFails ==
    /\ filesPc = "walk"
    /\ visitIdx <= Len(visits)
    /\ ThisVisit.err # Nil
    /\ parsed' = Nil
    /\ walkErr' = ThisVisit.err
    /\ filesPc' = "returned"
    /\ UNCHANGED <<validateVars, planVars, concatVars, runVars, paths, fsys, pathIdx, visits, visitIdx>>

\* not a .tf name, or a directory: return nil
VisitSkip ==
    /\ filesPc = "walk"
    /\ visitIdx <= Len(visits)
    /\ ThisVisit.err = Nil
    /\ ~HasSuffix(ThisVisit.filePath, PathChars(".tf")) \/ ThisVisit.node.kind = "dir"
    /\ visitIdx' = visitIdx + 1
    /\ UNCHANGED <<validateVars, planVars, concatVars, runVars, paths, fsys, filesPc, pathIdx, visits, parsed, walkErr>>

\* the error of a file that does not parse ends the call
VisitParse_FailFast ==
    /\ filesPc = "walk"
    /\ visitIdx <= Len(visits)
    /\ ThisVisit.err = Nil
    /\ HasSuffix(ThisVisit.filePath, PathChars(".tf"))
    /\ ThisVisit.node.kind # "dir"
    /\ LET filePath == Str(ThisVisit.filePath)
           parse == parseFile(filePath, ThisVisit.node.content)
       IN  IF parse.err # Nil
           THEN /\ parsed' = Nil
                /\ walkErr' = parse.err
                /\ filesPc' = "returned"
                /\ UNCHANGED visitIdx
           ELSE /\ parsed' = <<[parsed[1] EXCEPT !.Resources = @ \o parse.resources]>>
                /\ visitIdx' = visitIdx + 1
                /\ UNCHANGED <<walkErr, filesPc>>
    /\ UNCHANGED <<validateVars, planVars, concatVars, runVars, paths, fsys, pathIdx, visits>>

\* parseFile is called on a .tf file: its error is recorded, or its resources are appended
VisitParse ==
    /\ filesPc = "walk"
    /\ visitIdx <= Len(visits)
    /\ ThisVisit.err = Nil
    /\ HasSuffix(ThisVisit.filePath, PathChars(".tf"))
    /\ ThisVisit.node.kind # "dir"
    /\ LET filePath == Str(ThisVisit.filePath)
           parse == parseFile(filePath, ThisVisit.node.content)
       IN  parsed' = <<IF parse.err # Nil
                       THEN [parsed[1] EXCEPT !.Errors = Append(@, filePath \o ": " \o parse.err[1])]
                       ELSE [parsed[1] EXCEPT !.Resources = @ \o parse.resources]>>
    /\ visitIdx' = visitIdx + 1
    /\ UNCHANGED <<validateVars, planVars, concatVars, runVars, paths, fsys, filesPc, pathIdx, visits, walkErr>>

\* Walk returns nil: on to the next path
WalkEnd ==
    /\ filesPc = "walk"
    /\ visitIdx > Len(visits)
    /\ pathIdx' = pathIdx + 1
    /\ filesPc' = "paths"
    /\ UNCHANGED <<validateVars, planVars, concatVars, runVars, paths, fsys, visits, visitIdx, parsed, walkErr>>

\* return result, nil
ReturnFiles ==
    /\ filesPc = "paths"
    /\ pathIdx > Len(paths)
    /\ filesPc' = "returned"
    /\ UNCHANGED <<validateVars, planVars, concatVars, runVars, paths, fsys, pathIdx, visits, visitIdx, parsed, walkErr>>

NextFiles ==
    \/ WalkBegin
    \/ WalkFails
    \/ VisitSkip
    \/ VisitParse
    \/ WalkEnd
    \/ ReturnFiles

SpecFiles == InitFiles /\ [][NextFiles]_vars

-----------------------------------------------------------------------------
(* internal/config: LoadConfig *)

\* the most tag patterns of a rule in the explored configuration files
MaxPatterns == 2

\* the explored expressions that regexp.Compile rejects
InvalidPatterns == {"[invalid(regex"}

\* regexp.Compile(expr): (*Regexp, error)
regexpCompile(expr) ==
    IF expr \in InvalidPatterns
    THEN <<Nil, <<"error parsing regexp: missing closing ]: " \o expr>>>>
    ELSE <<<<expr>>, Nil>>

\* the configuration compiled so far is handed back with the error
compileError_KeepConfig(cfg, i, e) ==
    [config |-> <<cfg>>,
     err |-> <<"invalid regex pattern in rule " \o cfg.Rules[i].Name \o ": " \o e[1]>>]

\* return nil, fmt.Errorf("invalid regex pattern in rule %s: %w", config.Rules[i].Name, err)
compileError(cfg, i, e) ==
    [config |-> Nil,
     err |-> <<"invalid regex pattern in rule " \o cfg.Rules[i].Name \o ": " \o e[1]>>]

\* the loops `for i := range config.Rules { for j := range config.Rules[i].TagPatterns`,
\* from pattern j of rule i on
RECURSIVE compilePatternsFrom(_, _, _)
compilePatternsFrom(cfg, i, j) ==
    IF i > Len(cfg.Rules) THEN [config |-> <<cfg>>, err |-> Nil]
    ELSE IF j > Len(cfg.Rules[i].TagPatterns) THEN compilePatternsFrom(cfg, i + 1, 1)
    ELSE LET compiled == regexpCompile(cfg.Rules[i].TagPatterns[j].Pattern)
         IN  IF compiled[2] # Nil THEN compileError(cfg, i, compiled[2])
             ELSE compilePatternsFrom(
                      [cfg EXCEPT !.Rules[i].TagPatterns[j].regex = compiled[1]], i, j + 1)

\* LoadConfig(filename): (*Config, error)
LoadConfig(file) ==
    CASE file.kind = "unreadable" ->
            [config |-> Nil,
             err |-> <<"failed to read config file: open " \o file.name
                       \o ": no such file or directory">>]
      [] file.kind = "invalid" ->
            [config |-> Nil, err |-> <<"failed to parse config file: yaml: did not find expected node content">>]
      [] file.kind = "yaml" -> compilePatternsFrom(file.doc, 1, 1)

\* a tag pattern as yaml.Unmarshal leaves it: the unexported regex is nil
Decoded(pattern, message) == [Pattern |-> pattern, Message |-> message, regex |-> Nil]

DecodedPatterns ==
    {Decoded(PatternLower.Pattern, PatternLower.Message),
     Decoded(PatternShort.Pattern, PatternShort.Message),
     Decoded("[invalid(regex", "Invalid pattern")}

RuleNameAt(i) == CASE i = 1 -> "Basic Tags" [] i = 2 -> "Naming" [] OTHER -> "Production"

\* the decoded documents: up to MaxRules rules, each with up to MaxPatterns patterns
ConfigDocs ==
    {[Rules |-> [i \in 1..Len(ps) |->
                    [BareRule(RuleNameAt(i), "Rule with patterns") EXCEPT !.TagPatterns = ps[i]]],
      Global |-> NoGlobal] :
        ps \in SeqsUpTo(SeqsUpTo(DecodedPatterns, MaxPatterns), MaxRules)}

ConfigFile(kind, doc) == [name |-> ".tftaglint.yaml", kind |-> kind, doc |-> doc]

\* the file: it cannot be read, or it is not YAML, or it decodes to doc
ConfigFiles ==
    {ConfigFile(k, [Rules |-> <<>>, Global |-> NoGlobal]) : k \in {"unreadable", "invalid"}}
    \cup {ConfigFile("yaml", doc) : doc \in ConfigDocs}

\* the arguments of a call that is only LoadConfig
NoArgs == [planFile |-> "", paths |-> <<>>, showSummary |-> FALSE]

InitLoad ==
    /\ cfgFile \in ConfigFiles
    /\ loaded = Nil
    /\ runPc = "load"
    /\ args = NoArgs
    /\ stdout = <<>>
    /\ stderr = <<>>
    /\ runErr = Nil
    /\ config = [Rules |-> <<>>, Global |-> NoGlobal]
    /\ resources = <<>>
    /\ violations = <<>>
    /\ idx = 1
    /\ ruleIdx = 0
    /\ ret = <<>>
    /\ origin = <<>>
    /\ pc = "idle"
    /\ firstRun = <<>>
    /\ planFile = <<>>
    /\ planPc = "idle"
    /\ stack = <<>>
    /\ converted = <<>>
    /\ result = <<>>
    /\ err = <<>>
    /\ ConcatIdle
    /\ FilesIdle

\* cfg, err := config.LoadConfig(configFile)
CallLoadConfig ==
    /\ runPc = "load"
    /\ loaded' = <<LoadConfig(cfgFile)>>
    /\ runPc' = "loaded"
    /\ UNCHANGED <<validateVars, planVars, concatVars, filesVars, cfgFile, args, stdout, stderr, runErr>>

NextLoad == CallLoadConfig

SpecLoad == InitLoad /\ [][NextLoad]_vars

-----------------------------------------------------------------------------
(* internal/reporter *)

\* the most violations handed to the Reporter
MaxViolations == 3

\* the characters of the rule names and file names that the Reporter sorts
NameChars(s) ==
    CASE s = "Basic Tags" -> <<"B", "a", "s", "i", "c", " ", "T", "a", "g", "s">>
      [] s = "Naming" -> <<"N", "a", "m", "i", "n", "g">>
      [] s = "No Test Tags" -> <<"N", "o", " ", "T", "e", "s", "t", " ", "T", "a", "g", "s">>
      [] s = "Production" -> <<"P", "r", "o", "d", "u", "c", "t", "i", "o", "n">>
      [] s = "Rule A" -> <<"R", "u", "l", "e", " ", "A">>
      [] s = "global-required-tags" ->
            <<"g", "l", "o", "b", "a", "l", "-", "r", "e", "q", "u", "i", "r", "e", "d", "-",
              "t", "a", "g", "s">>
      [] s = "plan.json" -> <<"p", "l", "a", "n", ".", "j", "s", "o", "n">>
      [] s = "mod/c.tf" -> <<"m", "o", "d", "/", "c", ".", "t", "f">>
      [] s = "infra/main.tf" -> <<"i", "n", "f", "r", "a", "/", "m", "a", "i", "n", ".", "t", "f">>
      [] s = "infra/env.tf/z.tf" ->
            <<"i", "n", "f", "r", "a", "/", "e", "n", "v", ".", "t", "f", "/", "z", ".", "t", "f">>
      [] OTHER -> PathChars(s)

\* the strings are left in descending order
RECURSIVE sortStrings_Descending(_)
sortStrings_Descending(names) ==
    IF names = {} THEN <<>>
    ELSE LET last == CHOOSE n \in names :
                         \A m \in names \ {n} : LessChars(NameChars(m), NameChars(n))
         IN  <<last>> \o sortStrings_Descending(names \ {last})

\* sort.Strings, of the keys gathered from a map
RECURSIVE sortStrings(_)
sortStrings(names) ==
    IF names = {} THEN <<>>
    ELSE LET first == CHOOSE n \in names :
                          \A m \in names \ {n} : LessChars(NameChars(n), NameChars(m))
         IN  <<first>> \o sortStrings(names \ {first})

\* violationsByFile[file]: the violations of the file, in the order of the list
violationsByFile(vs, file) == SelectSeq(vs, LAMBDA v : v.Resource.File = file)

\* sort.Slice(fileViolations, less by start line): what the slice may hold afterwards.
\* sort.Slice is not a stable sort: elements of one line may be left in any order.
sortSlice(vs) ==
    LET n == Len(vs)
        orders == {f \in [1..n -> 1..n] : \A i, j \in 1..n : i # j => f[i] # f[j]}
    IN  {s \in {[i \in 1..n |-> vs[f[i]]] : f \in orders} :
            \A i \in 1..(n - 1) :
                ~(s[i + 1].Resource.Location.Start.Line < s[i].Resource.Location.Start.Line)}

\* reportViolation(v): the lines written
reportViolation(v) ==
    <<"  Line " \o ToString(v.Resource.Location.Start.Line) \o ": "
          \o v.Resource.Type \o "." \o v.Resource.Name,
      "    Rule: " \o v.Rule,
      "    Message: " \o v.Message>>
    \o (IF v.Description # "" THEN <<"    Description: " \o v.Description>> ELSE <<>>)

\* `for _, v := range fileViolations { r.reportViolation(v) }`
RECURSIVE reportViolations(_)
reportViolations(vs) ==
    IF vs = <<>> THEN <<>> ELSE reportViolation(vs[1]) \o reportViolations(Tail(vs))

\* `for _, file := range files`, sorted[file] being the file's slice after sort.Slice
RECURSIVE reportFiles(_, _)
reportFiles(files, sorted) ==
    IF files = <<>> THEN <<>>
    ELSE <<"File " \o files[1]>> \o reportViolations(sorted[files[1]]) \o <<"">>
         \o reportFiles(Tail(files), sorted)

\* Reporter.Report: the lines written (without the pictograph that opens three of them)
Report(vs, sorted) ==
    IF Len(vs) = 0 THEN <<"No tag violations found!">>
    ELSE <<"Found " \o ToString(Len(vs)) \o " tag violation(s):", "">>
         \o reportFiles(sortStrings({vs[i].Resource.File : i \in 1..Len(vs)}), sorted)

\* violationsByRule[rule]
violationsByRule(vs, rule) == Cardinality({i \in 1..Len(vs) : vs[i].Rule = rule})

\* `for _, rule := range rules { fmt.Fprintf(r.writer, "  %s: %d\n", ...) }`
RECURSIVE reportRules(_, _)
reportRules(rules, vs) ==
    IF rules = <<>> THEN <<>>
    ELSE <<"  " \o rules[1] \o ": " \o ToString(violationsByRule(vs, rules[1]))>>
         \o reportRules(Tail(rules), vs)

\* Reporter.ReportSummary: the lines written
ReportSummary(vs) ==
    IF Len(vs) = 0 THEN <<>>
    ELSE <<"--------------------------------------------------",
           "Summary:",
           "Total violations: " \o ToString(Len(vs)),
           "",
           "Violations by rule:">>
         \o reportRules(sortStrings({vs[i].Rule : i \in 1..Len(vs)}), vs)

-----------------------------------------------------------------------------
(* The state machine: a Reporter whose Report and ReportSummary are called *)

Found(file, line, type, name, rule, message, description) ==
    [Rule |-> rule, Description |-> description, Message |-> message,
     Resource |-> [Type |-> type, Name |-> name, Tags |-> <<>>, File |-> file,
                   Location |-> [Filename |-> file, Start |-> RangeAt(line).Start,
                                 End |-> RangeAt(line).End]]]

\* the violations handed to the Reporter: two files of source, and a plan
SampleViolations ==
    {Found("a.tf", 5, "aws_instance", "web", "Basic Tags",
           "Required tag 'Name' is missing", "Basic required tags"),
     Found("a.tf", 5, "aws_instance", "web", "global-required-tags",
           "Required tag 'Owner' is missing", "Global required tag"),
     Found("a.tf", 1, "aws_instance", "db", "Naming",
           "Tag names must be lowercase", "Tag naming"),
     Found("b.tf", 1, "aws_s3_bucket", "logs", "Basic Tags",
           "Required tag 'Name' is missing", ""),
     Found("mod/c.tf", 2, "aws_db_instance", "db", "global-required-tags",
           "Required tag 'Owner' is missing", "Global required tag"),
     Found("plan.json", 1, "aws_ami", "ubuntu", "global-required-tags",
           "Required tag 'Owner' is missing", "Global required tag"),
     Found("plan.json", 1, "aws_instance", "web", "Basic Tags",
           "Required tag 'Name' is missing", "Basic required tags")}

InitReport ==
    /\ violations \in SeqsUpTo(SampleViolations, MaxViolations)
    /\ pc = "done"
    /\ runPc = "report"
    /\ args = [planFile |-> "", paths |-> <<>>, showSummary |-> TRUE]
    /\ cfgFile = <<>>
    /\ loaded = <<>>
    /\ stdout = <<>>
    /\ stderr = <<>>
    /\ runErr = Nil
    /\ config = [Rules |-> <<>>, Global |-> NoGlobal]
    /\ resources = <<>>
    /\ idx = 1
    /\ ruleIdx = 0
    /\ ret = <<>>
    /\ origin = <<>>
    /\ firstRun = <<>>
    /\ planFile = <<>>
    /\ planPc = "idle"
    /\ stack = <<>>
    /\ converted = <<>>
    /\ result = <<>>
    /\ err = <<>>
    /\ ConcatIdle
    /\ FilesIdle

\* r.Report(violations)
CallReport ==
    /\ runPc = "report"
    /\ pc = "done"
    /\ LET files == {violations[i].Resource.File : i \in 1..Len(violations)}
       IN  \E sorted \in [files -> UNION {sortSlice(violationsByFile(violations, f)) : f \in files}] :
               /\ \A f \in files : sorted[f] \in sortSlice(violationsByFile(violations, f))
               /\ stdout' = stdout \o Report(violations, sorted)
    /\ runPc' = "summary"
    /\ UNCHANGED <<validateVars, planVars, concatVars, filesVars, cfgFile, loaded, args, stderr, runErr>>

\* r.ReportSummary(violations)
CallReportSummary ==
    /\ runPc = "summary"
    /\ stdout' = stdout \o ReportSummary(violations)
    /\ runPc' = "done"
    /\ UNCHANGED <<validateVars, planVars, concatVars, filesVars, cfgFile, loaded, args, stderr, runErr>>

NextReport ==
    \/ CallReport
    \/ CallReportSummary

SpecReport == InitReport /\ [][NextReport]_vars

-----------------------------------------------------------------------------
(* cmd/tftaglint: runValidate *)

\* the rules file of the README: a required tag everywhere, one rule, types left alone
LintDoc ==
    [Rules |-> <<[BareRule("Basic Tags", "Basic required tags") EXCEPT !.RequiredTags = <<"Name">>]>>,
     Global |-> [AlwaysRequiredTags |-> <<"Owner">>,
                 IgnoreResourceTypes |-> <<"data.aws_ami", "data.aws_availability_zones",
                                           "aws_db_instance">>]]

\* the configuration files of the explored runs
RunConfigFiles ==
    {ConfigFile("unreadable", [Rules |-> <<>>, Global |-> NoGlobal]),
     ConfigFile("yaml", [Rules |-> <<[BareRule("Naming", "Tag naming") EXCEPT
                                        !.TagPatterns = <<Decoded("[invalid(regex", "Invalid pattern")>>]>>,
                         Global |-> NoGlobal]),
     ConfigFile("yaml", [Rules |-> <<>>, Global |-> NoGlobal]),
     ConfigFile("yaml", LintDoc)}

\* the plan files of the explored runs
RunPlanFiles ==
    {[name |-> "plan.json", kind |-> k, plan |-> RootOf(<<>>, <<>>)] :
        k \in {"unreadable", "invalid"}}
    \cup {[name |-> "plan.json", kind |-> "plan", plan |-> RootOf(rs, cs)] :
            rs \in ResourceLists, cs \in ChildModuleLists(1)}

\* the path arguments of the explored runs
RunPaths == {<<>>, <<"infra">>, <<"solo.tf", "missing">>}

InitRun ==
    /\ cfgFile \in RunConfigFiles
    /\ loaded = Nil
    /\ runPc = "load"
    /\ stdout = <<>>
    /\ stderr = <<>>
    /\ runErr = Nil
    /\ \/ /\ args \in [planFile : {"plan.json"}, paths : {<<>>}, showSummary : BOOLEAN]
          /\ planFile \in RunPlanFiles
          /\ fsys = <<>>
       \/ /\ args \in [planFile : {""}, paths : RunPaths, showSummary : BOOLEAN]
          /\ planFile = <<>>
          /\ fsys \in FileSystems
    /\ planPc = "idle"
    /\ stack = <<>>
    /\ converted = <<>>
    /\ result = <<>>
    /\ err = <<>>
    /\ paths = <<>>
    /\ filesPc = "idle"
    /\ pathIdx = 0
    /\ visits = <<>>
    /\ visitIdx = 0
    /\ parsed = <<>>
    /\ walkErr = <<>>
    /\ config = [Rules |-> <<>>, Global |-> NoGlobal]
    /\ resources = <<>>
    /\ violations = <<>>
    /\ idx = 1
    /\ ruleIdx = 0
    /\ ret = <<>>
    /\ origin = <<>>
    /\ pc = "idle"
    /\ firstRun = <<>>
    /\ ConcatIdle

\* if err != nil { return fmt.Errorf("failed to load config: %w", err) }
RunConfigFails ==
    /\ runPc = "loaded"
    /\ loaded[1].err # Nil
    /\ runErr' = <<"failed to load config: " \o loaded[1].err[1]>>
    /\ runPc' = "done"
    /\ UNCHANGED <<validateVars, planVars, concatVars, filesVars, cfgFile, loaded, args, stdout, stderr>>

\* parseResult, err = parser.ParseTerraformPlan(planFile): the call
RunParsePlan ==
    /\ runPc = "loaded"
    /\ loaded[1].err = Nil
    /\ args.planFile # ""
    /\ planPc' = "read"
    /\ runPc' = "parse"
    /\ UNCHANGED <<validateVars, concatVars, filesVars, planFile, stack, converted, result, err>>
    /\ UNCHANGED <<cfgFile, loaded, args, stdout, stderr, runErr>>

\* parseResult, err = parser.ParseTerraformFiles(paths): the call, "." if no path is given
RunParseFiles ==
    /\ runPc = "loaded"
    /\ loaded[1].err = Nil
    /\ args.planFile = ""
    /\ paths' = IF Len(args.paths) = 0 THEN <<".">> ELSE args.paths
    /\ filesPc' = "paths"
    /\ pathIdx' = 1
    /\ visitIdx' = 1
    /\ parsed' = <<[Resources |-> <<>>, Errors |-> <<>>]>>
    /\ runPc' = "parse"
    /\ UNCHANGED <<validateVars, planVars, concatVars, fsys, visits, walkErr>>
    /\ UNCHANGED <<cfgFile, loaded, args, stdout, stderr, runErr>>

\* the extraction that was called has returned
Extracted == IF args.planFile # "" THEN planPc = "returned" ELSE filesPc = "returned"
parseResult == IF args.planFile # "" THEN result ELSE parsed
parseErr == IF args.planFile # "" THEN err ELSE walkErr

\* if err != nil { return fmt.Errorf("failed to parse ...: %w", err) }
RunParseFails ==
    /\ runPc = "parse"
    /\ Extracted
    /\ parseErr # Nil
    /\ runErr' = <<(IF args.planFile # "" THEN "failed to parse terraform plan: "
                    ELSE "failed to parse Terraform files: ") \o parseErr[1]>>
    /\ runPc' = "done"
    /\ UNCHANGED <<validateVars, planVars, concatVars, filesVars, cfgFile, loaded, args, stdout, stderr>>

\* `for _, err := range parseResult.Errors { fmt.Fprintf(os.Stderr, "  - %v\n", err) }`
parsingErrors(errors) ==
    IF Len(errors) > 0
    THEN <<"Parsing errors encountered:">>
         \o [k \in 1..Len(errors) |-> "  - " \o errors[k]] \o <<"">>
    ELSE <<>>

\* the parsing errors are written, validator.NewValidator(cfg).Validate(parseResult.Resources)
\* is called
RunValidate ==
    /\ runPc = "parse"
    /\ Extracted
    /\ parseErr = Nil
    /\ stderr' = stderr \o parsingErrors(parseResult[1].Errors)
    /\ config' = loaded[1].config[1]
    /\ resources' = parseResult[1].Resources
    /\ pc' = "resource"
    /\ runPc' = "report"
    /\ UNCHANGED <<violations, idx, ruleIdx, ret, origin, firstRun>>
    /\ UNCHANGED <<planVars, concatVars, filesVars, cfgFile, loaded, args, stdout, runErr>>

\* if showSummary && len(violations) > 0 { r.ReportSummary(violations) }
RunSummary ==
    /\ runPc = "summary"
    /\ stdout' = IF args.showSummary /\ Len(violations) > 0
                 THEN stdout \o ReportSummary(violations)
                 ELSE stdout
    /\ runPc' = "exit"
    /\ UNCHANGED <<validateVars, planVars, concatVars, filesVars, cfgFile, loaded, args, stderr, runErr>>

\* parsing errors make the run fail as well
RunReturn_FailOnErrors ==
    /\ runPc = "exit"
    /\ runErr' = IF Len(violations) > 0 \/ Len(parseResult[1].Errors) > 0
                 THEN <<"found " \o ToString(Len(violations)) \o " tag violations">>
                 ELSE Nil
    /\ runPc' = "done"
    /\ UNCHANGED <<validateVars, planVars, concatVars, filesVars, cfgFile, loaded, args, stdout, stderr>>

\* if len(violations) > 0 { return fmt.Errorf("found %d tag violations", ...) }; return nil
RunReturn ==
    /\ runPc = "exit"
    /\ runErr' = IF Len(violations) > 0
                 THEN <<"found " \o ToString(Len(violations)) \o " tag violations">>
                 ELSE Nil
    /\ runPc' = "done"
    /\ UNCHANGED <<validateVars, planVars, concatVars, filesVars, cfgFile, loaded, args, stdout, stderr>>

NextRun ==
    \/ CallLoadConfig
    \/ RunConfigFails
    \/ RunParsePlan
    \/ RunParseFiles
    \/ ReadFileFails
    \/ UnmarshalFails
    \/ ParseBegin
    \/ ConvertResource
    \/ EnterChild
    \/ LeaveModule
    \/ ReturnResult
    \/ WalkBegin
    \/ WalkFails
    \/ VisitSkip
    \/ VisitParse
    \/ WalkEnd
    \/ ReturnFiles
    \/ RunParseFails
    \/ RunValidate
    \/ SkipIgnored
    \/ CheckGlobal
    \/ CheckRule
    \/ NextResource
    \/ Return
    \/ CallReport
    \/ RunSummary
    \/ RunReturn

SpecRun == InitRun /\ [][NextRun]_vars






-----------------------------------------------------------------------------
(* What the claims speak of *)

Elems(s) == {s[i] : i \in DOMAIN s}

\* the elements of seq whose mark (the element of marks at the same position) is m, in order
Marked(seq, marks, m) ==
    LET ps == SelectSeq([p \in DOMAIN seq |-> p], LAMBDA p : marks[p] = m)
    IN  [k \in DOMAIN ps |-> seq[ps[k]]]

Ignored(resource) == resource.Type \in Elems(config.Global.IgnoreResourceTypes)

\* checkGlobalRequiredTags has just returned ret for resources[idx]
GlobalReturned == pc = "rules" /\ ruleIdx = 1

\* checkRule has just returned ret for resources[idx] and config.Rules[ruleIdx - 1]
RuleReturned == pc = "rules" /\ ruleIdx > 1

MissingTagViolation(ruleName, description, resource, name) ==
    [Rule |-> ruleName, Description |-> description, Resource |-> resource,
     Message |-> "Missing required tag: " \o name]

\* one violation per entry of AlwaysRequiredTags that is no key of the resource, in list order
ExpectedGlobal(resource) ==
    LET missing == SelectSeq(config.Global.AlwaysRequiredTags,
                             LAMBDA n : n \notin DOMAIN resource.Tags)
    IN  [k \in DOMAIN missing |->
            MissingTagViolation("global-required-tags", "Global required tags",
                                resource, missing[k])]

TypeGateOpen(resource, rule) ==
    rule.ResourceTypes = <<>> \/ resource.Type \in Elems(rule.ResourceTypes)

ConditionGateOpen(resource, rule) ==
    \/ rule.Condition = Nil
    \/ /\ rule.Condition[1].Tag \in DOMAIN resource.Tags
       /\ resource.Tags[rule.Condition[1].Tag] = rule.Condition[1].Value

Accepts(pattern, tagName) ==
    pattern.regex = Nil \/ MatchString(pattern.regex[1], tagName)

\* the number of violations the four checks of a rule find on a resource
FindingCount(resource, rule) ==
    Cardinality({i \in DOMAIN rule.RequiredTags :
                    rule.RequiredTags[i] \notin DOMAIN resource.Tags})
    + Cardinality({i \in DOMAIN rule.ForbiddenTags :
                    rule.ForbiddenTags[i] \in DOMAIN resource.Tags})
    + Cardinality({i \in DOMAIN rule.TagConstraints :
                    /\ rule.TagConstraints[i].Tag \in DOMAIN resource.Tags
                    /\ resource.Tags[rule.TagConstraints[i].Tag]
                          \notin Elems(rule.TagConstraints[i].AllowedValues)})
    + Cardinality({kj \in (DOMAIN resource.Tags) \X (DOMAIN rule.TagPatterns) :
                    ~Accepts(rule.TagPatterns[kj[2]], kj[1])})

GatesOpen(resource, rule) ==
    TypeGateOpen(resource, rule) /\ ConditionGateOpen(resource, rule)

\* the number of positions of seq that hold x
Occurrences(seq, x) == Cardinality({p \in DOMAIN seq : seq[p] = x})

RuleViolation(rule, resource, message) ==
    [Rule |-> rule.Name, Description |-> rule.Description, Resource |-> resource,
     Message |-> message]

ForbiddenMessage(name) == "Forbidden tag found: " \o name

\* the text after "Allowed values: " for the explored constraints
AllowedValuesText(constraint) ==
    CASE constraint.AllowedValues = <<"dev", "staging", "prod">> -> "dev, staging, prod"
      [] constraint.AllowedValues = <<>> -> ""

ConstraintMessage(constraint, value) ==
    "Invalid value for tag " \o constraint.Tag \o ": '" \o value
        \o "'. Allowed values: " \o AllowedValuesText(constraint)

PatternMessage(tagName, text) ==
    "Tag name '" \o tagName \o "' does not match pattern: " \o text

AnyValue == UNION {TagValues[k] : k \in TagNames}

RequiredMessages == {"Missing required tag: " \o n : n \in TagNames}
ForbiddenMessages == {ForbiddenMessage(n) : n \in TagNames}
ConstraintMessages(resource, rule) ==
    {ConstraintMessage(rule.TagConstraints[i], resource.Tags[rule.TagConstraints[i].Tag]) :
        i \in {c \in DOMAIN rule.TagConstraints :
                  rule.TagConstraints[c].Tag \in DOMAIN resource.Tags}}
PatternMessagesOf(rule, tagName) ==
    {PatternMessage(tagName, rule.TagPatterns[j].Message) : j \in DOMAIN rule.TagPatterns}
PatternMessages(rule) == UNION {PatternMessagesOf(rule, k) : k \in TagNames}

\* the elements of seq whose Message is in messages, in order
WithMessage(seq, messages) == SelectSeq(seq, LAMBDA v : v.Message \in messages)

\* one violation per entry of RequiredTags that is no key of the resource, in list order
ExpectedRequired(resource, rule) ==
    LET missing == SelectSeq(rule.RequiredTags, LAMBDA n : n \notin DOMAIN resource.Tags)
    IN  [k \in DOMAIN missing |->
            MissingTagViolation(rule.Name, rule.Description, resource, missing[k])]

\* one violation per entry of ForbiddenTags that is a key of the resource, in list order
ExpectedForbidden(resource, rule) ==
    LET found == SelectSeq(rule.ForbiddenTags, LAMBDA n : n \in DOMAIN resource.Tags)
    IN  [k \in DOMAIN found |-> RuleViolation(rule, resource, ForbiddenMessage(found[k]))]

\* one violation per constraint whose Tag is a key with a value outside AllowedValues
ExpectedConstraints(resource, rule) ==
    LET bad == SelectSeq(rule.TagConstraints,
                         LAMBDA c : /\ c.Tag \in DOMAIN resource.Tags
                                    /\ resource.Tags[c.Tag] \notin Elems(c.AllowedValues))
    IN  [k \in DOMAIN bad |->
            RuleViolation(rule, resource, ConstraintMessage(bad[k], resource.Tags[bad[k].Tag]))]

\* for one tag key: one violation per pattern that does not accept it, in list order
ExpectedPatternsOf(resource, rule, tagName) ==
    LET failing == SelectSeq(rule.TagPatterns, LAMBDA tp : ~Accepts(tp, tagName))
    IN  [k \in DOMAIN failing |->
            RuleViolation(rule, resource, PatternMessage(tagName, failing[k].Message))]

\* the pairs (tag key of the resource, position of a pattern) where the pattern fails the key
FailingPairs(resource, rule) ==
    {kj \in (DOMAIN resource.Tags) \X (DOMAIN rule.TagPatterns) :
        ~Accepts(rule.TagPatterns[kj[2]], kj[1])}

\* the tag names a rule mentions
NamedBy(rule) ==
    Elems(rule.RequiredTags) \cup Elems(rule.ForbiddenTags)
        \cup {rule.TagConstraints[i].Tag : i \in DOMAIN rule.TagConstraints}
        \cup {rule.Condition[i].Tag : i \in DOMAIN rule.Condition}

\* 1..4: which check of checkRule writes this message
CheckOf(resource, rule, message) ==
    CASE message \in RequiredMessages -> 1
      [] message \in ForbiddenMessages -> 2
      [] message \in ConstraintMessages(resource, rule) -> 3
      [] message \in PatternMessages(rule) -> 4
      [] OTHER -> 0

-----------------------------------------------------------------------------
(* C1: Ignore precedence.  No violation ever carries a Resource whose Type  *)
(* is an entry of Global.IgnoreResourceTypes, no check is run for such a    *)
(* resource (nothing is emitted from its position of the list), and the     *)
(* other resources of the same list are still checked: when Validate has    *)
(* returned, every non-ignored resource has its global-required-tags        *)
(* violations in the result.                                                *)
C1_IgnorePrecedence ==
    /\ \A p \in DOMAIN violations :
          /\ ~Ignored(violations[p].Resource)
          /\ ~Ignored(resources[origin[p][1]])
    /\ pc = "done" =>
          \A i \in DOMAIN resources :
             ~Ignored(resources[i]) =>
                 Marked(violations, origin, <<i, 0>>) = ExpectedGlobal(resources[i])

\* Validate has returned for a list with an ignored resource that lacks a required tag
\* and a checked resource that has violations
C1_Witness ==
    /\ pc = "done"
    /\ \E i, j \in DOMAIN resources :
          /\ Ignored(resources[i])
          /\ \E n \in Elems(config.Global.AlwaysRequiredTags) : n \notin DOMAIN resources[i].Tags
          /\ ~Ignored(resources[j])
          /\ \E p \in DOMAIN violations : violations[p].Resource = resources[j]

(* C2: Global required tags.  For every non-ignored resource the result of  *)
(* Validate holds, from the global check, exactly one violation with Rule   *)
(* "global-required-tags", Description "Global required tags" and Message   *)
(* "Missing required tag: <name>" per entry of AlwaysRequiredTags that is no *)
(* key of Tags, in configured order, and none for an entry that is a key,    *)
(* whatever its value.                                                       *)
C2_GlobalRequiredTags ==
    /\ GlobalReturned =>
          /\ ret = ExpectedGlobal(resources[idx])
          /\ Len(violations) >= Len(ret)
          /\ SubSeq(violations, Len(violations) - Len(ret) + 1, Len(violations)) = ret
    /\ \A p \in DOMAIN violations :
          origin[p][2] = 0 =>
             /\ violations[p].Rule = "global-required-tags"
             /\ violations[p].Description = "Global required tags"
             /\ violations[p].Resource = resources[origin[p][1]]
             /\ \E n \in Elems(config.Global.AlwaysRequiredTags) :
                   /\ n \notin DOMAIN violations[p].Resource.Tags
                   /\ violations[p].Message = "Missing required tag: " \o n

\* the global check has returned for a resource that has one required tag with an empty
\* value and lacks another
C2_Witness ==
    /\ GlobalReturned
    /\ \E n, m \in Elems(config.Global.AlwaysRequiredTags) :
          /\ n \in DOMAIN resources[idx].Tags
          /\ resources[idx].Tags[n] = ""
          /\ m \notin DOMAIN resources[idx].Tags
    /\ Len(ret) = 1

(* C3: Resource-type gate.  A rule returns no violation for a resource whose *)
(* Type is not a member of its non-empty ResourceTypes; a rule with an empty *)
(* ResourceTypes is applied to a resource of any type: unless its Condition  *)
(* excludes the resource it returns every finding of its checks.            *)
C3_ResourceTypeGate ==
    RuleReturned =>
        LET resource == resources[idx]
            rule == config.Rules[ruleIdx - 1]
        IN  /\ (Len(rule.ResourceTypes) > 0 /\ resource.Type \notin Elems(rule.ResourceTypes))
                  => ret = <<>>
            /\ (rule.ResourceTypes = <<>> /\ ConditionGateOpen(resource, rule))
                  => Len(ret) = FindingCount(resource, rule)

\* a rule whose checks would find something has returned nothing because the resource's
\* type is not in its ResourceTypes
C3_Witness ==
    /\ RuleReturned
    /\ Len(config.Rules[ruleIdx - 1].ResourceTypes) > 0
    /\ resources[idx].Type \notin Elems(config.Rules[ruleIdx - 1].ResourceTypes)
    /\ ConditionGateOpen(resources[idx], config.Rules[ruleIdx - 1])
    /\ FindingCount(resources[idx], config.Rules[ruleIdx - 1]) > 0
    /\ ret = <<>>

(* C4: Condition gate.  A rule with a Condition returns violations for a    *)
(* resource only when Tags[Condition.Tag] exists and equals Condition.Value *)
(* exactly: when the tag is missing or has another value (also one that has *)
(* Condition.Value as a prefix, or differs in case) it returns nothing, of   *)
(* any check kind.                                                          *)
C4_ConditionGate ==
    RuleReturned =>
        LET resource == resources[idx]
            rule == config.Rules[ruleIdx - 1]
        IN  (/\ rule.Condition # Nil
             /\ \/ rule.Condition[1].Tag \notin DOMAIN resource.Tags
                \/ resource.Tags[rule.Condition[1].Tag] # rule.Condition[1].Value)
                => ret = <<>>

\* a rule whose checks would find something has returned nothing for a resource whose
\* tag value "production" only starts with the condition's value "prod"
C4_Witness ==
    /\ RuleReturned
    /\ config.Rules[ruleIdx - 1].Condition = <<[Tag |-> "environment", Value |-> "prod"]>>
    /\ "environment" \in DOMAIN resources[idx].Tags
    /\ resources[idx].Tags["environment"] = "production"
    /\ TypeGateOpen(resources[idx], config.Rules[ruleIdx - 1])
    /\ FindingCount(resources[idx], config.Rules[ruleIdx - 1]) > 0
    /\ ret = <<>>

(* C5: RequiredTags check.  An applicable rule returns one violation        *)
(* "Missing required tag: <name>" with the rule's Name and Description per  *)
(* entry of RequiredTags that is no key of Tags, and none for an entry that *)
(* is a key, even with the empty string as its value.                       *)
C5_RequiredTags ==
    RuleReturned =>
        LET resource == resources[idx]
            rule == config.Rules[ruleIdx - 1]
        IN  GatesOpen(resource, rule) =>
              /\ WithMessage(ret, RequiredMessages) = ExpectedRequired(resource, rule)
              /\ \A n \in TagNames :
                    Occurrences(ret, MissingTagViolation(rule.Name, rule.Description, resource, n))
                      = IF n \in DOMAIN resource.Tags THEN 0
                        ELSE Occurrences(rule.RequiredTags, n)

\* an applicable rule has returned for a resource that has one of its required tags with
\* the empty string as value and lacks another
C5_Witness ==
    /\ RuleReturned
    /\ GatesOpen(resources[idx], config.Rules[ruleIdx - 1])
    /\ \E n, m \in Elems(config.Rules[ruleIdx - 1].RequiredTags) :
          /\ n \in DOMAIN resources[idx].Tags
          /\ resources[idx].Tags[n] = ""
          /\ m \notin DOMAIN resources[idx].Tags
    /\ Len(WithMessage(ret, RequiredMessages)) = 1

(* C6: ForbiddenTags check.  An applicable rule returns one violation       *)
(* "Forbidden tag found: <name>" per entry of ForbiddenTags that is a key of *)
(* Tags, whatever its value, in the configured order of ForbiddenTags, and  *)
(* none for an entry that is no key.                                        *)
C6_ForbiddenTags ==
    RuleReturned =>
        LET resource == resources[idx]
            rule == config.Rules[ruleIdx - 1]
        IN  GatesOpen(resource, rule) =>
              /\ WithMessage(ret, ForbiddenMessages) = ExpectedForbidden(resource, rule)
              /\ \A n \in TagNames :
                    Occurrences(ret, RuleViolation(rule, resource, ForbiddenMessage(n)))
                      = IF n \in DOMAIN resource.Tags
                        THEN Occurrences(rule.ForbiddenTags, n)
                        ELSE 0

\* an applicable rule has returned two forbidden-tag violations, for "environment" and
\* then "Test"
C6_Witness ==
    /\ RuleReturned
    /\ GatesOpen(resources[idx], config.Rules[ruleIdx - 1])
    /\ config.Rules[ruleIdx - 1].ForbiddenTags = <<"environment", "Test">>
    /\ {"environment", "Test"} \subseteq DOMAIN resources[idx].Tags
    /\ Len(WithMessage(ret, ForbiddenMessages)) = 2

(* C7: TagConstraints check.  In an applicable rule a constraint emits a    *)
(* violation exactly when its Tag is a key of Tags and the value equals no  *)
(* element of AllowedValues (exact, case-sensitive); a constraint on an     *)
(* absent tag emits nothing, an empty AllowedValues makes every present     *)
(* value a violation, and the message lists AllowedValues joined by ", " in *)
(* configured order.                                                        *)
C7_TagConstraints ==
    RuleReturned =>
        LET resource == resources[idx]
            rule == config.Rules[ruleIdx - 1]
        IN  GatesOpen(resource, rule) =>
              /\ WithMessage(ret, ConstraintMessages(resource, rule))
                    = ExpectedConstraints(resource, rule)
              /\ Len(ret) = Len(WithMessage(ret, RequiredMessages))
                             + Len(WithMessage(ret, ForbiddenMessages))
                             + Len(ExpectedConstraints(resource, rule))
                             + Len(WithMessage(ret, PatternMessages(rule)))
              /\ \A i \in DOMAIN rule.TagConstraints :
                    LET c == rule.TagConstraints[i] IN
                    /\ c.Tag \notin DOMAIN resource.Tags =>
                          \A p \in DOMAIN ret : \A value \in AnyValue :
                             ret[p].Message # ConstraintMessage(c, value)
                    /\ (c.Tag \in DOMAIN resource.Tags /\ c.AllowedValues = <<>>) =>
                          \E p \in DOMAIN ret :
                             ret[p].Message = "Invalid value for tag " \o c.Tag \o ": '"
                                 \o resource.Tags[c.Tag] \o "'. Allowed values: "

\* an applicable rule has returned a violation for the value "Prod" against the allowed
\* values dev, staging, prod, and one for a tag whose constraint allows no value
C7_Witness ==
    /\ RuleReturned
    /\ GatesOpen(resources[idx], config.Rules[ruleIdx - 1])
    /\ config.Rules[ruleIdx - 1].TagConstraints = <<ConstraintNone, ConstraintEnv>>
    /\ "Name" \in DOMAIN resources[idx].Tags
    /\ "environment" \in DOMAIN resources[idx].Tags
    /\ resources[idx].Tags["environment"] = "Prod"
    /\ \E p \in DOMAIN ret :
          ret[p].Message = "Invalid value for tag environment: 'Prod'. Allowed values: dev, staging, prod"
    /\ Len(WithMessage(ret, ConstraintMessages(resources[idx], config.Rules[ruleIdx - 1]))) = 2

(* C8: TagPatterns cross product.  In an applicable rule the number of      *)
(* pattern violations is the number of pairs (tag key of the resource,      *)
(* pattern of the rule) whose matcher does not match the key: every key of  *)
(* the resource is tested, named by the rule or not, k failing patterns on  *)
(* one key give k violations, and a pattern with no compiled matcher        *)
(* accepts every tag name.                                                  *)
C8_TagPatternsCrossProduct ==
    RuleReturned =>
        LET resource == resources[idx]
            rule == config.Rules[ruleIdx - 1]
        IN  GatesOpen(resource, rule) =>
              /\ Len(WithMessage(ret, PatternMessages(rule)))
                    = Cardinality(FailingPairs(resource, rule))
              /\ \A k \in TagNames : \A j \in DOMAIN rule.TagPatterns :
                    Occurrences(ret, RuleViolation(rule, resource,
                                        PatternMessage(k, rule.TagPatterns[j].Message)))
                      = Cardinality({kj \in FailingPairs(resource, rule) :
                                        /\ kj[1] = k
                                        /\ rule.TagPatterns[kj[2]].Message
                                              = rule.TagPatterns[j].Message})
              /\ \A j \in DOMAIN rule.TagPatterns :
                    rule.TagPatterns[j].regex = Nil =>
                       \A p \in DOMAIN ret : \A k \in TagNames :
                          ret[p].Message # PatternMessage(k, rule.TagPatterns[j].Message)

\* an applicable rule has returned pattern violations for a resource with two keys the
\* rule does not name, one of them failing two patterns
C8_Witness ==
    /\ RuleReturned
    /\ GatesOpen(resources[idx], config.Rules[ruleIdx - 1])
    /\ \E k1, k2 \in DOMAIN resources[idx].Tags \ NamedBy(config.Rules[ruleIdx - 1]) :
          /\ k1 # k2
          /\ Cardinality({kj \in FailingPairs(resources[idx], config.Rules[ruleIdx - 1]) :
                             kj[1] = k1}) = 2
          /\ Cardinality({kj \in FailingPairs(resources[idx], config.Rules[ruleIdx - 1]) :
                             kj[1] = k2}) = 1
    /\ Len(WithMessage(ret, PatternMessages(config.Rules[ruleIdx - 1]))) >= 3

(* C9: Output ordering across resources and rules.  In the sequence        *)
(* Validate builds and returns, every violation of an earlier resource      *)
(* precedes every violation of a later one; within one resource the         *)
(* global-required-tags violations come first, then those of each rule in   *)
(* configured rule order.  For a first resource with Tags {Test: true},     *)
(* AlwaysRequiredTags = [Owner] and Rules = [{RequiredTags: [Name]},        *)
(* {ForbiddenTags: [Test]}] its violations are exactly Missing Owner,       *)
(* Missing Name, Forbidden Test, in that order; they are the whole result   *)
(* when it is the only resource.                                            *)
ExampleResource == [Type |-> "aws_instance", Name |-> "web", Tags |-> [Test |-> "true"]]

ExampleRules ==
    <<[BareRule("Basic Tags", "Basic required tags") EXCEPT !.RequiredTags = <<"Name">>],
      [BareRule("No Test Tags", "Test tags forbidden") EXCEPT !.ForbiddenTags = <<"Test">>]>>

ExampleMessages ==
    <<"Missing required tag: Owner", "Missing required tag: Name", "Forbidden tag found: Test">>

C9_OutputOrdering ==
    /\ Len(origin) = Len(violations)
    /\ \A p \in DOMAIN violations :
          /\ violations[p].Resource = resources[origin[p][1]]
          /\ violations[p].Rule = IF origin[p][2] = 0
                                  THEN "global-required-tags"
                                  ELSE config.Rules[origin[p][2]].Name
    /\ \A p, q \in DOMAIN violations :
          p < q => \/ origin[p][1] < origin[q][1]
                   \/ origin[p][1] = origin[q][1] /\ origin[p][2] <= origin[q][2]
    /\ (/\ pc = "done"
        /\ Len(resources) >= 1
        /\ resources[1] = ExampleResource
        /\ config.Global.AlwaysRequiredTags = <<"Owner">>
        /\ ~Ignored(ExampleResource)
        /\ config.Rules = ExampleRules)
          => /\ Len(violations) >= 3
             /\ [k \in 1..3 |-> violations[k].Message] = ExampleMessages
             /\ [k \in 1..3 |-> origin[k]] = <<(<<1, 0>>), (<<1, 1>>), (<<1, 2>>)>>
             /\ \A p \in DOMAIN violations : p > 3 => origin[p][1] > 1
             /\ Len(resources) = 1 => Len(violations) = 3

\* Validate has returned for the example resource followed by a different resource that
\* has a violation of its own
C9_Witness ==
    /\ pc = "done"
    /\ Len(resources) = 2
    /\ resources[1] = ExampleResource
    /\ config.Global.AlwaysRequiredTags = <<"Owner">>
    /\ config.Rules = ExampleRules
    /\ resources[2] # ExampleResource
    /\ Len(violations) = 4
    /\ origin[4] = <<2, 0>>

(* C10: Fixed check order inside a rule.  Among the violations one rule     *)
(* returns for one resource every RequiredTags violation precedes every     *)
(* ForbiddenTags violation, which precedes every TagConstraints violation,  *)
(* which precedes every TagPatterns violation; within RequiredTags,         *)
(* ForbiddenTags and TagConstraints the order is the configured list order, *)
(* and the TagPatterns violations of one tag key are in the configured      *)
(* order of the patterns.                                                   *)
\* the elements of part appear in the order of the messages of the configured list
InListOrder(part, messages) ==
    \A p, q \in DOMAIN part :
        p < q => \E a, b \in DOMAIN messages :
                    a < b /\ part[p].Message = messages[a] /\ part[q].Message = messages[b]

C11_Determinism ==
    (pc = "done" /\ firstRun # <<>>) => violations = firstRun[1]

-----------------------------------------------------------------------------
(* Plan extraction: what the claims below speak of *)

\* the record the last convertPlannedResource call was given, and what it returned
LastPlanned == converted[1].planned
LastRes == converted[1].res

\* the segments of that record's address
LastParts == Split(LastPlanned.Address)

\* the segment begins with one of aws_, google_, azurerm_, alicloud_, oci_
ProviderPrefixed(segment) ==
    \E p \in {<<"a", "w", "s", "_">>,
              <<"g", "o", "o", "g", "l", "e", "_">>,
              <<"a", "z", "u", "r", "e", "r", "m", "_">>,
              <<"a", "l", "i", "c", "l", "o", "u", "d", "_">>,
              <<"o", "c", "i", "_">>} :
        /\ Len(segment) >= Len(p)
        /\ \A k \in 1..Len(p) : segment[k] = p[k]

Leftmost(S) == CHOOSE i \in S : \A j \in S : i <= j

\* the returned resource has the given segments as its Type and Name
Identified(type, name) ==
    /\ LastRes # Nil
    /\ LastRes[1].Type = Str(type)
    /\ LastRes[1].Name = Str(name)

\* module.<m1>. ... .module.<mk>.<type>.<name>, k >= 1, no segment empty
ModuleNested(parts) ==
    /\ Len(parts) >= 4
    /\ Len(parts) % 2 = 0
    /\ \A k \in 1..Len(parts) : parts[k] # <<>>
    /\ \A k \in 1..((Len(parts) - 2) \div 2) : parts[2 * k - 1] = <<"m", "o", "d", "u", "l", "e">>

\* the keys of values[field] that hold a string, none if the field is absent or no object
StringKeys(values, field) ==
    IF field \in DOMAIN values /\ values[field].kind = "object"
    THEN {k \in DOMAIN values[field].obj : values[field].obj[k].kind = "string"}
    ELSE {}

\* the records of a list that have an address of two or more segments, converted, in order
RECURSIVE Convertible(_, _)
Convertible(records, filename) ==
    IF records = <<>> THEN <<>>
    ELSE (IF Len(Split(records[1].Address)) >= 2
          THEN convertPlannedResource(records[1], filename)
          ELSE <<>>) \o Convertible(Tail(records), filename)

\* a module's own resources, then its child modules one after the other, each likewise
RECURSIVE PreOrder(_, _, _)
PreOrder(records, children, filename) ==
    Convertible(records, filename) \o
    (IF children = <<>> THEN <<>>
     ELSE PreOrder(children[1].Resources, children[1].ChildModules, filename)
          \o PreOrder(<<>>, Tail(children), filename))

Root == planFile.plan.PlannedValues.RootModule

(* C12: Address-derived identity.  For an address of two or more segments,  *)
(* Type is the leftmost segment that starts with aws_, google_, azurerm_,   *)
(* alicloud_ or oci_, and Name is the segment immediately following it; the *)
(* record's own type and name fields have no influence.                     *)
C12_AddressDerivedIdentity ==
    converted # <<>> =>
        LET parts == LastParts
            prefixed == {j \in 1..Len(parts) : ProviderPrefixed(parts[j])}
            i == Leftmost(prefixed)
        IN  (Len(parts) >= 2 /\ prefixed # {}) =>
                /\ LastRes # Nil
                /\ LastRes[1].Type = Str(parts[i])
                /\ i < Len(parts) => LastRes[1].Name = Str(parts[i + 1])

(* C12, amended: for an address of two or more segments, if a segment other *)
(* than the last starts with one of the prefixes and the segment following   *)
(* the leftmost such segment is not empty, Type is that leftmost segment and *)
(* Name the one following it; in every other case Type and Name are the last *)
(* two segments.  The record's own type and name fields have no influence.   *)
C12_AddressDerivedIdentityAmended ==
    converted # <<>> =>
        LET parts == LastParts
            n == Len(parts)
            candidates == {j \in 1..(n - 1) : ProviderPrefixed(parts[j])}
            i == Leftmost(candidates)
        IN  n >= 2 =>
                IF candidates # {} /\ parts[i + 1] # <<>>
                THEN Identified(parts[i], parts[i + 1])
                ELSE Identified(parts[n - 1], parts[n])

\* data.aws_ami.ubuntu, in a record that calls itself aws_s3_bucket.logs, came out as aws_ami.ubuntu
C12_Witness ==
    /\ converted # <<>>
    /\ LastPlanned.Address = Dotted(<<"data", "aws_ami", "ubuntu">>)
    /\ LastPlanned.Type = "aws_s3_bucket"
    /\ LastPlanned.Name = "logs"
    /\ LastRes # Nil
    /\ LastRes[1].Type = "aws_ami"
    /\ LastRes[1].Name = "ubuntu"

(* C13: Module-nested addresses.  An address module.<m1>...module.<mk>.     *)
(* <type>.<name>, of any depth and with any module names, also a module     *)
(* name that starts with a provider prefix, yields Type = <type> and        *)
(* Name = <name>, its final two segments.                                   *)
C13_ModuleNestedAddresses ==
    converted # <<>> =>
        LET parts == LastParts
        IN  ModuleNested(parts) => Identified(parts[Len(parts) - 1], parts[Len(parts)])

\* module.aws_network.aws_vpc.main came out as aws_network.aws_vpc
C13_Witness ==
    /\ converted # <<>>
    /\ LastPlanned.Address = Dotted(<<"module", "aws_network", "aws_vpc", "main">>)
    /\ LastRes # Nil
    /\ LastRes[1].Type = "aws_network"
    /\ LastRes[1].Name = "aws_vpc"

(* C14: Fallback identity.  For an address of two or more segments none of  *)
(* which starts with a provider prefix, Type is the second-to-last segment  *)
(* and Name the last.                                                       *)
C14_FallbackIdentity ==
    converted # <<>> =>
        LET parts == LastParts
        IN  (Len(parts) >= 2 /\ \A i \in 1..Len(parts) : ~ProviderPrefixed(parts[i])) =>
                Identified(parts[Len(parts) - 1], parts[Len(parts)])

\* data.null_resource.main came out as null_resource.main
C14_Witness ==
    /\ converted # <<>>
    /\ LastPlanned.Address = Dotted(<<"data", "null_resource", "main">>)
    /\ LastRes # Nil
    /\ LastRes[1].Type = "null_resource"
    /\ LastRes[1].Name = "main"

(* C15: Short addresses are dropped silently.  Converting a record whose    *)
(* address has fewer than two segments ("invalid", "") returns no resource  *)
(* and leaves the result as it was: no Resource, no Errors entry, no error, *)
(* and the resources of the other records stay.                             *)
C15_ShortAddressesDropped ==
    [][(ConvertResource /\ Len(Split(Top.Resources[Top.ri].Address)) < 2) =>
          /\ converted'[1].res = Nil
          /\ result' = result
          /\ result'[1].Errors = <<>>
          /\ err' = Nil]_vars

\* "invalid" was dropped between aws_instance.web and module.vpc.aws_vpc.main, which both came out
C15_Witness ==
    /\ planPc = "returned"
    /\ Len(Root.Resources) = 3
    /\ Root.Resources[2].Address = Dotted(<<"invalid">>)
    /\ Root.ChildModules = <<>>
    /\ err = Nil
    /\ result # Nil
    /\ result[1].Errors = <<>>
    /\ Len(result[1].Resources) = 2
    /\ result[1].Resources[1].Type = "aws_instance"
    /\ result[1].Resources[2].Type = "aws_vpc"

(* C16: Non-empty identity.  Every Resource in a ParseResult has a          *)
(* non-empty Type and a non-empty Name, whatever the input, addresses such  *)
(* as "aws_instance.", "." and "a..b" included; a candidate that would have *)
(* an empty one is dropped.                                                 *)
C16_NonEmptyIdentity ==
    result # Nil =>
        \A k \in 1..Len(result[1].Resources) :
            /\ result[1].Resources[k].Type # ""
            /\ result[1].Resources[k].Name # ""

\* "aws_instance." was returned as a resource of type aws_instance with the empty name
C16_Witness ==
    /\ planPc = "returned"
    /\ Root.Resources # <<>>
    /\ Root.Resources[1].Address = Dotted(<<"aws_instance", "">>)
    /\ result # Nil
    /\ Len(result[1].Resources) = 1
    /\ result[1].Resources[1].Type = "aws_instance"
    /\ result[1].Resources[1].Name = ""

(* C17: Tag merge precedence.  A plan resource's Tags are the union of the  *)
(* string-valued entries of values.tags and of values.tags_all; for a key   *)
(* in both, the value of tags_all wins; an absent field contributes nothing.*)
C17_TagMergePrecedence ==
    (converted # <<>> /\ LastRes # Nil) =>
        LET values == LastPlanned.Values
            fromAll == StringKeys(values, "tags_all")
            fromTags == StringKeys(values, "tags")
        IN  /\ DOMAIN LastRes[1].Tags = fromTags \cup fromAll
            /\ \A k \in fromAll : LastRes[1].Tags[k] = values["tags_all"].obj[k].str
            /\ \A k \in fromTags \ fromAll : LastRes[1].Tags[k] = values["tags"].obj[k].str

\* Name is "a" in tags and "b" in tags_all, Environment is in tags only: Name came out as "b"
C17_Witness ==
    /\ converted # <<>>
    /\ LastPlanned.Values = [instance_type |-> JString("t2.micro"),
                             tags |-> JObject([Name |-> JString("a"), Environment |-> JString("a")]),
                             tags_all |-> JObject([Name |-> JString("b")])]
    /\ LastRes # Nil
    /\ LastRes[1].Tags = [Name |-> "b", Environment |-> "a"]

(* C18: Non-string tag values.  An entry of tags or tags_all whose value is *)
(* not a string is dropped, and a tags or tags_all field that is not an     *)
(* object contributes nothing; the Resource is emitted all the same and no  *)
(* error is recorded.                                                       *)
C18_NonStringTagValues ==
    (converted # <<>> /\ Len(LastParts) >= 2) =>
        LET values == LastPlanned.Values
            fields == {f \in {"tags", "tags_all"} \cap DOMAIN values : values[f].kind = "object"}
        IN  /\ LastRes # Nil
            /\ result[1].Resources # <<>>
            /\ result[1].Resources[Len(result[1].Resources)] = LastRes[1]
            /\ result[1].Errors = <<>>
            /\ err = Nil
            /\ \A k \in DOMAIN LastRes[1].Tags :
                   \E f \in fields :
                       /\ k \in DOMAIN values[f].obj
                       /\ values[f].obj[k].kind = "string"
                       /\ values[f].obj[k].str = LastRes[1].Tags[k]

\* tags holds a number and a string, tags_all is a boolean: the string alone came out
C18_Witness ==
    /\ converted # <<>>
    /\ LastPlanned.Values = [instance_type |-> JString("t2.micro"),
                             tags |-> JObject([Name |-> JNumber, Environment |-> JString("a")]),
                             tags_all |-> JBool]
    /\ LastRes # Nil
    /\ LastRes[1].Tags = [Environment |-> "a"]
    /\ result[1].Resources = <<LastRes[1]>>
    /\ result[1].Errors = <<>>

(* C19: Plan traversal order.  The returned Resources are the root module's *)
(* resources in list order, then each child module in list order, a         *)
(* module's own resources before those of its nested children, at any       *)
(* depth; there is exactly one Resource for each record whose address can   *)
(* be converted.                                                            *)
C19_PlanTraversalOrder ==
    (planPc = "returned" /\ result # Nil) =>
        result[1].Resources = PreOrder(Root.Resources, Root.ChildModules, planFile.name)

\* two child modules, the first with a child of its own, every module with resources of its own
C19_Witness ==
    /\ planPc = "returned"
    /\ result # Nil
    /\ Len(Root.Resources) = 3
    /\ Len(Root.ChildModules) = 2
    /\ Len(Root.ChildModules[1].Resources) = 1
    /\ Len(Root.ChildModules[1].ChildModules) = 1
    /\ Len(Root.ChildModules[1].ChildModules[1].Resources) = 3
    /\ Len(Root.ChildModules[2].Resources) = 1
    /\ Len(result[1].Resources) = 6
    /\ result[1].Resources[3].Type = "aws_ami"
    /\ result[1].Resources[4].Type = "aws_instance"
    /\ result[1].Resources[6].Type = "aws_ami"

(* C20: Plan extraction is all-or-nothing.  When the file cannot be read or *)
(* is not valid JSON, ParseTerraformPlan returns an error and no            *)
(* ParseResult; when it succeeds, the ParseResult's Errors is empty.        *)
C20_PlanAllOrNothing ==
    planPc = "returned" =>
        IF planFile.kind \in {"unreadable", "invalid"}
        THEN err # Nil /\ result = Nil
        ELSE err = Nil /\ result # Nil /\ result[1].Errors = <<>>

\* the content was not valid JSON: an error and no result
C20_Witness ==
    /\ planPc = "returned"
    /\ planFile.kind = "invalid"
    /\ err = <<"failed to parse plan JSON">>
    /\ result = Nil

(* C26: Resource-level independence.  For all resource lists A and B,       *)
(* Validate(A ++ B) = Validate(A) ++ Validate(B); Validate of the empty     *)
(* list is empty; no call fails, and each leaves the resources it was given *)
(* and the configuration as they were.                                      *)
C26_ResourceIndependence ==
    (whole # <<>> /\ pc = "done" /\ Len(pieces) = 2) =>
        /\ pieces[1] = pieces[2] \o violations
        /\ whole.all = <<>> => pieces[1] = <<>>
        /\ resources = SubSeq(whole.all, whole.cut + 1, Len(whole.all))
        /\ config = whole.config

\* the three calls returned the same violations, and the one on A ++ B in another order
C26_Witness ==
    /\ whole # <<>>
    /\ pc = "done"
    /\ Len(pieces) = 2
    /\ pieces[1] # pieces[2] \o violations
    /\ Len(pieces[1]) = Len(pieces[2]) + Len(violations)
    /\ \A v \in Elems(pieces[1]) :
           Occurrences(pieces[1], v) = Occurrences(pieces[2] \o violations, v)

-----------------------------------------------------------------------------
(* Source extraction: what the claims below speak of *)

\* the elements of a set of names in ascending order
Ascending(names) ==
    CHOOSE seq \in [1..Cardinality(names) -> names] :
        \A i, j \in 1..Cardinality(names) :
            i < j => LessChars(PathChars(seq[i]), PathChars(seq[j]))

\* the .tf files discovered at and below a node, as <<path, content>>, a directory's
\* entries in ascending order of name and each directory's files where the directory stands
RECURSIVE Discovered(_, _), DiscoveredIn(_, _, _)
Discovered(path, node) ==
    IF node.kind = "file"
    THEN IF HasSuffix(path, <<".", "t", "f">>) THEN <<<<Str(path), node.content>>>> ELSE <<>>
    ELSE IF node.kind = "dir" THEN DiscoveredIn(path, node, Ascending(DOMAIN node.entries))
    ELSE <<>>

DiscoveredIn(path, node, names) ==
    IF names = <<>> THEN <<>>
    ELSE Discovered(JoinPath(path, names[1]), node.entries[names[1]])
         \o DiscoveredIn(path, node, Tail(names))

\* the files discovered under the given root paths, in the order of the paths
RECURSIVE DiscoveredUnder(_)
DiscoveredUnder(roots) ==
    IF roots = <<>> THEN <<>>
    ELSE (IF roots[1] \in DOMAIN fsys THEN Discovered(PathChars(roots[1]), fsys[roots[1]]) ELSE <<>>)
         \o DiscoveredUnder(Tail(roots))

\* walking the node meets something that cannot be read: a missing entry, a closed directory
RECURSIVE WalkBreaks(_)
WalkBreaks(node) ==
    \/ node.kind = "broken"
    \/ node.kind = "dir" /\ ~node.readable
    \/ node.kind = "dir" /\ \E n \in DOMAIN node.entries : WalkBreaks(node.entries[n])

\* walking some root path fails
SomeWalkFails ==
    \E i \in 1..Len(paths) : paths[i] \notin DOMAIN fsys \/ WalkBreaks(fsys[paths[i]])

\* for every element of files that satisfies Test, what Of makes of it, one after the other
\* the sequences of a sequence, one after the other
RECURSIVE Flatten(_)
Flatten(seqs) == IF seqs = <<>> THEN <<>> ELSE Head(seqs) \o Flatten(Tail(seqs))

ConcatOver(files, Test(_), Of(_)) ==
    Flatten([i \in 1..Len(files) |-> IF Test(files[i]) THEN Of(files[i]) ELSE <<>>])

Fails(file) == file[2].kind = "malformed"
Parses(file) == file[2].kind = "native"

\* the error recorded for a file that does not parse
ErrorOf(file) == <<file[1] \o ": failed to parse HCL: " \o file[2].diags>>

\* identity and place of the resource blocks of a file, in the order of the blocks
ResourceBlocksOf(file) ==
    LET blocks == SelectSeq(file[2].Blocks,
                            LAMBDA b : b.Type = "resource" /\ Len(b.Labels) >= 2)
    IN  [i \in 1..Len(blocks) |->
            [Type |-> blocks[i].Labels[1], Name |-> blocks[i].Labels[2],
             Location |-> [Filename |-> file[1], Start |-> blocks[i].DefRange.Start,
                           End |-> blocks[i].DefRange.End],
             File |-> file[1]]]

\* a resource without its tags
Untagged(r) == [Type |-> r.Type, Name |-> r.Name, Location |-> r.Location, File |-> r.File]

(* C21: Per-file isolation.  In a call of ParseTerraformFiles whose walks do *)
(* not fail, each discovered file that does not parse adds exactly one Error *)
(* naming it and no Resource, the call succeeds, and the Resources are those *)
(* of the other discovered files, as if the failing ones were not there; so  *)
(* there are as many Errors as failing files.                                *)
C21_PerFileIsolation ==
    (filesPc = "returned" /\ ~SomeWalkFails) =>
        LET files == DiscoveredUnder(paths)
        IN  /\ walkErr = Nil
            /\ parsed # Nil
            /\ parsed[1].Errors = ConcatOver(files, Fails, ErrorOf)
            /\ Len(parsed[1].Errors) = Cardinality({i \in 1..Len(files) : Fails(files[i])})
            /\ parsed[1].Resources =
                   ConcatOver(files, Parses, LAMBDA f : parseFile(f[1], f[2]).resources)
            /\ \A i \in 1..Len(files) :
                   Fails(files[i]) =>
                       \A k \in 1..Len(parsed[1].Resources) :
                           parsed[1].Resources[k].File # files[i][1]

\* a.tf does not parse, b.tf and mod/c.tf do: one error, their two resources
C21_Witness ==
    /\ filesPc = "returned"
    /\ paths = <<".">>
    /\ fsys \in FileSystems
    /\ DOMAIN fsys["."].entries = {"a.tf", "b.tf", "mod"}
    /\ parsed # Nil
    /\ parsed[1].Errors = <<"a.tf: failed to parse HCL: Argument or block definition required">>
    /\ Len(parsed[1].Resources) = 2
    /\ parsed[1].Resources[1].File = "b.tf"
    /\ parsed[1].Resources[2].File = "mod/c.tf"

(* C22: Source extraction selects and orders blocks.  There is exactly one   *)
(* Resource (Type = label 0, Name = label 1, Location = the block's defining *)
(* range, File = the file) for each top-level resource block with two or     *)
(* more labels; other blocks are skipped and add no Error; the Resources are *)
(* in file-discovery order and, within a file, in the order of the blocks.   *)
C22_SourceBlocks ==
    (filesPc = "returned" /\ parsed # Nil) =>
        LET files == DiscoveredUnder(paths)
        IN  /\ [k \in 1..Len(parsed[1].Resources) |-> Untagged(parsed[1].Resources[k])]
                   = ConcatOver(files, Parses, ResourceBlocksOf)
            /\ Len(parsed[1].Errors) = Cardinality({i \in 1..Len(files) : Fails(files[i])})

\* infra then ".": main.tf's two resources, env.tf/z.tf's one, then a.tf's single resource of three labels
C22_Witness ==
    /\ filesPc = "returned"
    /\ paths = <<"infra", ".">>
    /\ fsys \in FileSystems
    /\ DOMAIN fsys["."].entries = {"a.tf", "notes.md"}
    /\ fsys["."].entries["a.tf"] = File(ContentOdd)
    /\ parsed # Nil
    /\ parsed[1].Errors = <<>>
    /\ Len(parsed[1].Resources) = 4
    /\ parsed[1].Resources[1].File = "infra/env.tf/z.tf"
    /\ parsed[1].Resources[2].Name = "web"
    /\ parsed[1].Resources[3].Name = "logs"
    /\ parsed[1].Resources[4].Type = "aws_vpc"
    /\ parsed[1].Resources[4].Name = "main"
    /\ parsed[1].Resources[4].Location.Start.Line = 6
    /\ parsed[1].Resources[4].File = "a.tf"

\* an expression as it stands in key position, without the wrapper of the object constructor
Unwrapped(k) == IF k.expr = "ObjectConsKeyExpr" THEN k.wrapped ELSE k

BareIdentifier(e) == e.expr = "ScopeTraversalExpr" /\ Len(e.traversal) = 1
StringLiteral(e) == e.expr = "LiteralValueExpr" /\ e.ty = "string"
PlainTemplate(e) ==
    /\ e.expr = "TemplateExpr"
    /\ Len(e.parts) = 1
    /\ StringLiteral(e.parts[1])

\* the text of a string literal or of a template without interpolation
LiteralText(e) == IF StringLiteral(e) THEN e.str ELSE e.parts[1].str

\* an entry whose key and value are both known without evaluation
StaticEntry(item) ==
    LET k == Unwrapped(item.KeyExpr)
    IN  /\ BareIdentifier(k) \/ StringLiteral(k) \/ PlainTemplate(k)
        /\ StringLiteral(item.ValueExpr) \/ PlainTemplate(item.ValueExpr)

StaticKey(item) ==
    LET k == Unwrapped(item.KeyExpr)
    IN  IF BareIdentifier(k) THEN k.traversal[1] ELSE LiteralText(k)

\* the tags a tags attribute stands for: its static entries, the later of two with one key
StaticTags(body) ==
    IF "tags" \notin DOMAIN body.Attributes \/ body.Attributes["tags"].expr # "ObjectConsExpr"
    THEN <<>>
    ELSE LET items == SelectSeq(body.Attributes["tags"].items, StaticEntry)
             last(key) == CHOOSE i \in 1..Len(items) :
                              /\ StaticKey(items[i]) = key
                              /\ \A j \in (i + 1)..Len(items) : StaticKey(items[j]) # key
         IN  [key \in {StaticKey(items[i]) : i \in 1..Len(items)} |->
                 LiteralText(items[last(key)].ValueExpr)]

StaticTagsOf(file) ==
    LET blocks == SelectSeq(file[2].Blocks,
                            LAMBDA b : b.Type = "resource" /\ Len(b.Labels) >= 2)
    IN  [i \in 1..Len(blocks) |-> StaticTags(blocks[i].Body)]

\* no block of the file has blocks of its own
FlatBlocks(file) ==
    Parses(file) => \A i \in 1..Len(file[2].Blocks) : file[2].Blocks[i].Body.Blocks = <<>>

(* C23: Only statically literal tags are extracted from source.  An entry of *)
(* a resource's tags object becomes a tag exactly when its key is a bare     *)
(* identifier, a quoted string literal or a template without interpolation   *)
(* and its value is a literal string or a template without interpolation;    *)
(* every other entry is left out without an Error and without keeping the    *)
(* literal entries or the Resource itself from being extracted.              *)
C23_LiteralTagsOnly ==
    (filesPc = "returned" /\ parsed # Nil) =>
        LET files == DiscoveredUnder(paths)
        IN  (\A i \in 1..Len(files) : FlatBlocks(files[i])) =>
                /\ [k \in 1..Len(parsed[1].Resources) |-> parsed[1].Resources[k].Tags]
                       = ConcatOver(files, Parses, StaticTagsOf)
                /\ \A k \in 1..Len(parsed[1].Errors) :
                       \E i \in 1..Len(files) :
                           Fails(files[i]) /\ <<parsed[1].Errors[k]>> = ErrorOf(files[i])

\* { Name = "web-${var.env}", "Owner" = "team" }: the resource with the tag Owner alone
C23_Witness ==
    /\ filesPc = "returned"
    /\ fsys \in TagFileSystems
    /\ LET body == fsys["."].entries["a.tf"].content.Blocks[1].Body
       IN  /\ body.Blocks = <<>>
           /\ "tags" \in DOMAIN body.Attributes
           /\ body.Attributes["tags"].expr = "ObjectConsExpr"
           /\ Len(body.Attributes["tags"].items) = 2
           /\ ~StaticEntry(body.Attributes["tags"].items[1])
           /\ body.Attributes["tags"].items[1].ValueExpr.expr = "TemplateExpr"
           /\ StaticEntry(body.Attributes["tags"].items[2])
    /\ parsed # Nil
    /\ parsed[1].Errors = <<>>
    /\ Len(parsed[1].Resources) = 1
    /\ parsed[1].Resources[1].Name = "web"
    /\ parsed[1].Resources[1].Tags = [Owner |-> "team"]

(* C30: A directory-walk failure is a whole-call failure.  When walking any  *)
(* root path fails, ParseTerraformFiles returns the error and no ParseResult,*)
(* whatever Resources and Errors it had gathered; only failures to parse a   *)
(* file are gathered and survived.                                           *)
C30_WalkFailureIsFatal ==
    filesPc = "returned" =>
        /\ SomeWalkFails => parsed = Nil /\ walkErr # Nil
        /\ ~SomeWalkFails => parsed # Nil /\ walkErr = Nil

\* "infra" gives three resources, then "missing" cannot be walked: nothing is returned
C30_Witness ==
    /\ filesPc = "returned"
    /\ paths = <<"infra", "missing">>
    /\ Len(DiscoveredUnder(<<"infra">>)) = 2
    /\ parsed = Nil
    /\ walkErr # Nil

\* <<i, j>> for every tag pattern j of every rule i of a configuration
PatternsOf(cfg) ==
    UNION {{<<i, j>> : j \in 1..Len(cfg.Rules[i].TagPatterns)} : i \in 1..Len(cfg.Rules)}

\* the file holds a configuration all of whose patterns are regular expressions
Loadable(file) ==
    /\ file.kind = "yaml"
    /\ \A ij \in PatternsOf(file.doc) :
           file.doc.Rules[ij[1]].TagPatterns[ij[2]].Pattern \notin InvalidPatterns

(* C28: Configuration loading is all-or-nothing.  LoadConfig returns an      *)
(* error and no Config when the file cannot be read, is not valid YAML or    *)
(* holds any tag pattern that is no valid regular expression; when it        *)
(* succeeds, every TagPattern of the returned Config is compiled, and the    *)
(* Config is otherwise what the file holds.                                  *)
C28_LoadAllOrNothing ==
    (runPc = "loaded" /\ args = NoArgs) =>
        LET out == loaded[1]
        IN  /\ ~Loadable(cfgFile) => out.config = Nil /\ out.err # Nil
            /\ Loadable(cfgFile) =>
                   /\ out.err = Nil
                   /\ out.config # Nil
                   /\ PatternsOf(out.config[1]) = PatternsOf(cfgFile.doc)
                   /\ \A ij \in PatternsOf(out.config[1]) :
                          LET tp == out.config[1].Rules[ij[1]].TagPatterns[ij[2]]
                          IN  /\ tp.regex # Nil
                              /\ tp.regex[1] = tp.Pattern
                              /\ [tp EXCEPT !.regex = Nil]
                                     = cfgFile.doc.Rules[ij[1]].TagPatterns[ij[2]]
                   /\ out.config[1].Global = cfgFile.doc.Global
                   /\ \A i \in 1..Len(cfgFile.doc.Rules) :
                          [out.config[1].Rules[i] EXCEPT !.TagPatterns = <<>>]
                              = [cfgFile.doc.Rules[i] EXCEPT !.TagPatterns = <<>>]

\* the first rule's patterns compile, the second rule's second pattern does not: no Config
C28_Witness ==
    /\ runPc = "loaded"
    /\ args = NoArgs
    /\ cfgFile.kind = "yaml"
    /\ Len(cfgFile.doc.Rules) = 2
    /\ Len(cfgFile.doc.Rules[1].TagPatterns) = 2
    /\ \A j \in 1..2 : cfgFile.doc.Rules[1].TagPatterns[j].Pattern \notin InvalidPatterns
    /\ Len(cfgFile.doc.Rules[2].TagPatterns) = 2
    /\ cfgFile.doc.Rules[2].TagPatterns[1].Pattern \notin InvalidPatterns
    /\ cfgFile.doc.Rules[2].TagPatterns[2].Pattern \in InvalidPatterns
    /\ loaded[1].config = Nil
    /\ loaded[1].err = <<"invalid regex pattern in rule Naming: error parsing regexp: missing closing ]: [invalid(regex">>

\* the numbers of a set in ascending order
AscendingNumbers(S) ==
    CHOOSE seq \in [1..Cardinality(S) -> S] :
        \A i, j \in 1..Cardinality(S) : i < j => seq[i] < seq[j]

\* the names of a set in ascending order, byte by byte
AscendingNames(S) ==
    CHOOSE seq \in [1..Cardinality(S) -> S] :
        \A i, j \in 1..Cardinality(S) :
            i < j => LessChars(NameChars(seq[i]), NameChars(seq[j]))

\* the violations of a file by ascending start line, those of one line in the order of the list
ByLineThenEmission(vs, file) ==
    LET mine == SelectSeq(vs, LAMBDA v : v.Resource.File = file)
        lines == AscendingNumbers({mine[i].Resource.Location.Start.Line : i \in 1..Len(mine)})
    IN  Flatten([k \in 1..Len(lines) |->
                    SelectSeq(mine, LAMBDA v : v.Resource.Location.Start.Line = lines[k])])

ExpectedSummary(vs) ==
    IF vs = <<>> THEN <<>>
    ELSE LET rules == AscendingNames({vs[i].Rule : i \in 1..Len(vs)})
         IN  <<"--------------------------------------------------",
               "Summary:",
               "Total violations: " \o ToString(Len(vs)),
               "",
               "Violations by rule:">>
             \o [k \in 1..Len(rules) |->
                    "  " \o rules[k] \o ": " \o ToString(Occurrences([i \in 1..Len(vs) |-> vs[i].Rule], rules[k]))]

(* C29: Summary counts.  ReportSummary writes the total number of violations *)
(* (the length of the list) and, for each distinct Rule value in the list,   *)
(* one line with the number of violations bearing it, the lines in ascending *)
(* order of rule name; for an empty list it writes nothing.                  *)
C29_SummaryCounts ==
    [][CallReportSummary => stdout' = stdout \o ExpectedSummary(violations)]_vars

\* three violations, two of them global: Basic Tags 1 before global-required-tags 2
C29_Witness ==
    /\ runPc = "done"
    /\ loaded = Nil
    /\ Len(violations) = 3
    /\ Len(stdout) > 7
    /\ stdout[Len(stdout) - 4] = "Total violations: 3"
    /\ stdout[Len(stdout) - 1] = "  Basic Tags: 1"
    /\ stdout[Len(stdout)] = "  global-required-tags: 2"

\* the extraction of this run fails as a whole: the plan cannot be read or decoded, or
\* walking one of the root paths fails
ExtractionFails ==
    IF args.planFile # "" THEN planFile.kind # "plan"
    ELSE LET roots == IF args.paths = <<>> THEN <<".">> ELSE args.paths
         IN  \E i \in 1..Len(roots) : roots[i] \notin DOMAIN fsys \/ WalkBreaks(fsys[roots[i]])

\* the last lines of a sequence of lines are the given ones
EndsWith(lines, last) ==
    /\ Len(lines) >= Len(last)
    /\ SubSeq(lines, Len(lines) - Len(last) + 1, Len(lines)) = last

(* C24: CLI exit contract.  runValidate fails exactly when loading the       *)
(* configuration fails, when extraction fails as a whole, or when there are  *)
(* violations.  With violations the report (and the summary, if asked for)   *)
(* is written before the failure is signalled.  Errors of single files are   *)
(* written to the error stream and do not by themselves make the run fail.   *)
C24_ExitContract ==
    /\ runPc = "done" =>
           /\ (runErr # Nil) <=>
                  (~Loadable(cfgFile) \/ ExtractionFails \/ Len(violations) > 0)
           /\ (Loadable(cfgFile) /\ ~ExtractionFails) =>
                  /\ stderr = parsingErrors(parseResult[1].Errors)
                  /\ Len(parseResult[1].Errors) > 0 => Len(stderr) = Len(parseResult[1].Errors) + 2
                  /\ Len(violations) = 0 =>
                         runErr = Nil /\ stdout = <<"No tag violations found!">>
                  /\ Len(violations) > 0 =>
                         /\ runErr = <<"found " \o ToString(Len(violations)) \o " tag violations">>
                         /\ stdout[1] = "Found " \o ToString(Len(violations)) \o " tag violation(s):"
                         /\ args.showSummary =>
                                EndsWith(stdout, ExpectedSummary(violations))
                         /\ ~args.showSummary =>
                                \A k \in 1..Len(stdout) : stdout[k] # "Summary:"
    /\ runPc = "exit" =>
           /\ runErr = Nil
           /\ stdout # <<>>
           /\ (args.showSummary /\ Len(violations) > 0) =>
                  EndsWith(stdout, ExpectedSummary(violations))

\* a.tf does not parse and b.tf holds an ignored type: the error is written, nothing is
\* found, the run succeeds
C24_Witness ==
    /\ runPc = "done"
    /\ args.planFile = ""
    /\ cfgFile = ConfigFile("yaml", LintDoc)
    /\ parsed # Nil
    /\ Len(parsed[1].Errors) = 1
    /\ Len(parsed[1].Resources) = 1
    /\ stderr = <<"Parsing errors encountered:",
                  "  - a.tf: failed to parse HCL: Argument or block definition required", "">>
    /\ stdout = <<"No tag violations found!">>
    /\ runErr = Nil

\* every record of a module and of the modules below it
RECURSIVE RecordsOf(_, _)
RecordsOf(records, children) ==
    {records[i] : i \in 1..Len(records)} \cup
    (IF children = <<>> THEN {}
     ELSE RecordsOf(children[1].Resources, children[1].ChildModules)
          \cup RecordsOf(<<>>, Tail(children)))

\* the names of the data sources of type aws_ami in the plan
DataAmiNames ==
    {n \in {"ubuntu", "main", "web"} :
        \E r \in RecordsOf(planFile.plan.PlannedValues.RootModule.Resources,
                           planFile.plan.PlannedValues.RootModule.ChildModules) :
            r.Address = Dotted(<<"data", "aws_ami", n>>)}

(* C27: Documented exemption of data sources.  With ignore_resource_types    *)
(* holding "data.aws_ami", a record of a plan whose address is               *)
(* data.aws_ami.<name> is exempt: no violation is reported for it.           *)
C27_DataSourceExempt ==
    (/\ runPc = "done"
     /\ args.planFile # ""
     /\ planFile.kind = "plan"
     /\ Loadable(cfgFile)
     /\ \E k \in 1..Len(cfgFile.doc.Global.IgnoreResourceTypes) :
            cfgFile.doc.Global.IgnoreResourceTypes[k] = "data.aws_ami") =>
        \A i \in 1..Len(violations) :
            ~(violations[i].Resource.Type = "aws_ami"
              /\ violations[i].Resource.Name \in DataAmiNames)

\* the plan holds data.aws_ami.ubuntu alone, the configuration ignores data.aws_ami: the
\* missing tags of aws_ami.ubuntu are reported and the run fails
C27_Witness ==
    /\ runPc = "done"
    /\ cfgFile = ConfigFile("yaml", LintDoc)
    /\ planFile \in RunPlanFiles
    /\ planFile.kind = "plan"
    /\ planFile.plan = RootOf(<<Planned(<<"data", "aws_ami", "ubuntu">>, "aws_ami", "ubuntu", WebValues)>>, <<>>)
    /\ Len(violations) = 1
    /\ violations[1].Rule = "global-required-tags"
    /\ violations[1].Resource.Type = "aws_ami"
    /\ violations[1].Resource.Name = "ubuntu"
    /\ runErr = <<"found 1 tag violations">>

=============================================================================
